---- MODULE Spec2Model ----
(***************************************************************************)
(* Model of the sirdar orchestrator core: the AgentPool scheduler with its *)
(* TaskQueue and BudgetTracker, and LifecycleManager.runTask.               *)
(*                                                                         *)
(* Money is counted in cents.  Task ids are the integers 1, 2, ... handed  *)
(* out in submission order, so "submitted earlier" is "smaller id".        *)
(***************************************************************************)
EXTENDS Integers, Sequences, FiniteSets, TLC

\* ---------------------------------------------------------------- bounds
MaxTasks == 4          \* tasks submitted in one behaviour
MaxN     == 2          \* largest maxConcurrent tried
MaxFaults == 1         \* irregular inputs in one behaviour: a callback that raises or
                       \* submits, a task whose tier is not in the tier table

\* ------------------------------------------------------------ tier table
Tiers == {"trivial-simple", "trivial-code", "light", "standard", "complex", "deep"}

UnknownTier == "unknown"

InvalidTierError == "Invalid task tier"

getBudgetThresholds(tier) ==
  CASE tier = "trivial-simple" -> [threw |-> "none", softWarning |-> 5,    hardFlag |-> 15]
    [] tier = "trivial-code"   -> [threw |-> "none", softWarning |-> 10,   hardFlag |-> 25]
    [] tier = "light"          -> [threw |-> "none", softWarning |-> 50,   hardFlag |-> 100]
    [] tier = "standard"       -> [threw |-> "none", softWarning |-> 200,  hardFlag |-> 500]
    [] tier = "complex"        -> [threw |-> "none", softWarning |-> 1000, hardFlag |-> 2000]
    [] tier = "deep"           -> [threw |-> "none", softWarning |-> 2500, hardFlag |-> 5000]
    [] OTHER                   -> [threw |-> InvalidTierError, softWarning |-> 0, hardFlag |-> 0]

\* ------------------------------------------------------------- TaskQueue
enqueue(queue, task) == Append(queue, task)

\* undefined, as shift() and queue[0] give on an empty array.
UndefinedTask == [id |-> 0, n |-> 0]

peek(queue) == IF Len(queue) = 0 THEN UndefinedTask ELSE Head(queue)

\* pop() where shift() is meant: the newest task leaves first.
dequeueNewest(queue) ==
  [task |-> queue[Len(queue)], queue |-> SubSeq(queue, 1, Len(queue) - 1)]

\* peek() where dequeue() is meant: the task stays in the queue.
dequeueKeeps(queue) == [task |-> Head(queue), queue |-> queue]

\* shift(): the oldest task and the queue without it.
dequeue(queue) ==
  IF Len(queue) = 0
    THEN [task |-> UndefinedTask, queue |-> queue]
    ELSE [task |-> Head(queue), queue |-> Tail(queue)]

size(queue) == Len(queue)

\* findIndex: the position of the first match, counted from 1, or -1.
findIndex(queue, taskId) ==
  IF \E i \in 1..Len(queue) : queue[i].id = taskId
    THEN CHOOSE i \in 1..Len(queue) :
           /\ queue[i].id = taskId
           /\ \A j \in 1..(i - 1) : queue[j].id # taskId
    ELSE -1

\* splice(index, 1)
splice(queue, index) ==
  SubSeq(queue, 1, index - 1) \o SubSeq(queue, index + 1, Len(queue))

\* filter() where findIndex and splice are meant: every match leaves.
removeEvery(queue, taskId) ==
  IF findIndex(queue, taskId) = -1
    THEN [found |-> FALSE, queue |-> queue]
    ELSE [found |-> TRUE, queue |-> SelectSeq(queue, LAMBDA t : t.id # taskId)]

remove(queue, taskId) ==
  LET index == findIndex(queue, taskId)
  IN IF index = -1
       THEN [found |-> FALSE, queue |-> queue]
       ELSE [found |-> TRUE, queue |-> splice(queue, index)]

\* The arrays are kept by reference: "queue" is the private field, "copy"
\* the array getAll made.  return this.queue where [...this.queue] is meant:
getAllAliased(arrays) == [heap |-> arrays, ref |-> "queue"]

getAll(arrays) == [heap |-> [arrays EXCEPT !.copy = arrays.queue], ref |-> "copy"]

isEmpty(queue) == Len(queue) = 0

\* ---------------------------------------------------------- BudgetTracker
\* recordTask with >= where > is meant.
recordTaskAtLeast(recs, result, tier) ==
  LET record     == [taskId |-> result.taskId, tier |-> tier,
                     costEstimate |-> result.costEstimate]
      pushed     == Append(recs, record)
      thresholds == getBudgetThresholds(tier)
  IN  IF thresholds.threw # "none"
        THEN [records |-> pushed, threw |-> thresholds.threw, warning |-> "none"]
        ELSE [records |-> pushed, threw |-> "none",
              warning |-> IF result.costEstimate >= thresholds.hardFlag THEN "hard"
                          ELSE IF result.costEstimate >= thresholds.softWarning THEN "soft"
                          ELSE "none"]

\* recordTask pushes the record first and looks the thresholds up afterwards,
\* so an unknown tier raises with the record already appended.
recordTask(recs, result, tier) ==
  LET record     == [taskId |-> result.taskId, tier |-> tier,
                     costEstimate |-> result.costEstimate]
      pushed     == Append(recs, record)
      thresholds == getBudgetThresholds(tier)
  IN  IF thresholds.threw # "none"
        THEN [records |-> pushed, threw |-> thresholds.threw, warning |-> "none"]
        ELSE [records |-> pushed, threw |-> "none",
              warning |-> IF result.costEstimate > thresholds.hardFlag THEN "hard"
                          ELSE IF result.costEstimate > thresholds.softWarning THEN "soft"
                          ELSE "none"]

\* -------------------------------------------------------------- AgentPool
VARIABLES
  maxConcurrent,   \* AgentPool.maxConcurrent
  agents,          \* AgentPool.agents : task id -> AgentInfo
  taskQueue,       \* AgentPool.taskQueue : sequence of TaskDefinition
  records,         \* BudgetTracker.records
  runCalls,        \* log of lifecycleManager.runTask invocations: [id, via]
  events,          \* per task, how often each AgentPoolEvents callback ran
  chain,           \* per task, the state of runTask(task).then(..).catch(..)
  trace,           \* the steps of the most recent handleTaskComplete run
  seen,            \* the pool as each callback of that run found it
  faults           \* irregular inputs so far (see MaxFaults)

poolVars == <<maxConcurrent, agents, taskQueue, records, runCalls, events, chain, trace,
              seen, faults>>

\* ------------------------------------------------- LifecycleManager.runTask
VARIABLES
  pc,              \* where the one runTask call stands
  taskDefinition,  \* its TaskDefinition: tier and timeoutMs
  now,             \* the clock, in ms
  session,         \* the session: state, abort() and dispose() calls
  outputText,      \* the output buffer, as runs [ch, n] of n times character ch
  delivered,       \* the deltas handed to onOutput, in order
  onOutput,        \* whether runTask was given the onOutput callback
  emitted,         \* the text_delta events of the session, in order
  timeoutId,       \* the deadline timer: null, armed, fired or cleared
  deadline,        \* the instant the armed timer is due
  timedOut,        \* the timedOut flag
  prompt,          \* the promise of session.prompt
  race,            \* the promise of Promise.race
  taskResult       \* the TaskResult runTask resolved with

runVars == <<pc, taskDefinition, now, session, outputText, delivered, onOutput, emitted,
             timeoutId, deadline,
             timedOut, prompt, race, taskResult>>

\* ------------------------------------------ BudgetTracker persistence
VARIABLES
  lastSavedIndex,  \* BudgetTracker.lastSavedIndex
  historyFile,     \* budget-history.jsonl: exists, readable, lines
  saves,           \* the save() calls made so far, each with its position
  loading,         \* the load() call: idle, reading, returned or raised
  warning,         \* what the last recordTask call returned or raised
  recorded,        \* recordTask calls made so far; the next task id
  generation,      \* BudgetTracker instances created on the storage so far
  original,        \* the records of the previous instance, and whether
                   \* all of them had been saved when it was dropped
  overlap,         \* a call was made while a save or load was under way
  writeFaults,     \* writes that failed so far
  summary          \* what the last getTierSummary or getAllSummaries returned

ledgerVars == <<lastSavedIndex, historyFile, saves, loading, warning, recorded,
                generation, original, overlap, writeFaults, summary>>

\* ------------------------------------------------------ WorktreeManager
VARIABLES
  repo,            \* the repository the injected exec runs git in
  commands,        \* the commands the last call passed to exec, in order
  call,            \* the WorktreeManager call under way or just ended
  calls,           \* WorktreeManager calls made so far
  execFaults,      \* exec calls that went wrong from outside so far
  protocol         \* mergeWorktree as in part_006 (rebase) or part_007 (merge)

gitVars == <<repo, commands, call, calls, execFaults, protocol>>

\* ------------------------------------------------------------ TaskQueue
VARIABLES
  heap,            \* the arrays: TaskQueue.queue and the one getAll returned
  got,             \* the array the caller holds from getAll, if any
  answer,          \* the last call and what it returned
  enqueued,        \* every task passed to enqueue so far, in order
  gone             \* the tasks that are to have left the queue

queueVars == <<heap, got, answer, enqueued, gone>>

vars == <<poolVars, runVars, ledgerVars, gitVars, queueVars>>

PoolTiers == {"light", UnknownTier}

\* What the backend promise resolves with: success or failure at no cost (what
\* LifecycleManager reports), or success at a cost above light's soft threshold.
BackendOutcomes ==
  {[success |-> TRUE, costEstimate |-> 0], [success |-> TRUE, costEstimate |-> 75],
   [success |-> FALSE, costEstimate |-> 0]}

RejectError == "backend rejected"

BackendError == "Test error"

CallbackError == "callback raised"

NoResult == [taskId |-> 0, success |-> FALSE, costEstimate |-> 0, error |-> "no result"]

\* What a caller-supplied callback does when invoked: return, raise, or call
\* pool.submit with a new task before returning.
CallbackBehaviours ==
  {[kind |-> k, tier |-> "light"] : k \in {"return", "throw"}}
    \cup {[kind |-> "submit", tier |-> x] : x \in {"light"}}

TaskIds == 1..MaxTasks

Terminal == {"completed", "failed"}

getRunning(s) == {id \in DOMAIN s.agents : s.agents[id].status = "running"}

getQueued(s) == {id \in DOMAIN s.agents : s.agents[id].status = "queued"}

getCompleted(s) == {id \in DOMAIN s.agents : s.agents[id].status = "completed"}

runningCount(s) == Cardinality(getRunning(s))

queuedCount(s) == Cardinality(getQueued(s))

hasCapacity(s) == runningCount(s) < s.maxConcurrent

\* The pool as one value, so that the synchronous code of a handler is a
\* composition of functions on it.
Pool ==
  [maxConcurrent |-> maxConcurrent, agents |-> agents, taskQueue |-> taskQueue,
   records |-> records, runCalls |-> runCalls, events |-> events,
   chain |-> chain, trace |-> trace, seen |-> seen, faults |-> faults, threw |-> "none"]

Commit(s) ==
  /\ agents' = s.agents
  /\ taskQueue' = s.taskQueue
  /\ records' = s.records
  /\ runCalls' = s.runCalls
  /\ events' = s.events
  /\ chain' = s.chain
  /\ trace' = s.trace
  /\ seen' = s.seen
  /\ faults' = s.faults
  /\ UNCHANGED <<maxConcurrent, runVars, ledgerVars, gitVars, queueVars>>

\* startTask without info.startTime = Date.now().
startTaskUnstamped(s, task, via) ==
  [s EXCEPT !.agents[task.id].status = "running",
            !.runCalls = Append(@, [id |-> task.id, via |-> via]),
            !.chain[task.id] = [state |-> "pending", error |-> "none"]]

startTask(s, task, via) ==
  [s EXCEPT !.agents[task.id].status = "running",
            !.agents[task.id].startTime = TRUE,
            !.runCalls = Append(@, [id |-> task.id, via |-> via]),
            !.chain[task.id] = [state |-> "pending", error |-> "none"]]

\* submit without the capacity test: every task starts at once.
submitNoCapacityCheck(s, task) ==
  LET info == [taskId |-> task.id, tier |-> task.tier, status |-> "queued",
               startTime |-> FALSE, endTime |-> FALSE, result |-> NoResult]
      s1   == [s EXCEPT !.agents = (task.id :> info) @@ @,
                         !.events = (task.id :> [onComplete |-> 0, onFailed |-> 0, onWarning |-> 0]) @@ @,
                         !.chain = (task.id :> [state |-> "none", error |-> "none"]) @@ @]
  IN  startTask(s1, task, "submit")

submit(s, task) ==
  LET info == [taskId |-> task.id, tier |-> task.tier, status |-> "queued",
               startTime |-> FALSE, endTime |-> FALSE, result |-> NoResult]
      s1   == [s EXCEPT !.agents = (task.id :> info) @@ @,
                         !.events = (task.id :> [onComplete |-> 0, onFailed |-> 0, onWarning |-> 0]) @@ @,
                         !.chain = (task.id :> [state |-> "none", error |-> "none"]) @@ @]
  IN  IF runningCount(s1) < s1.maxConcurrent
        THEN startTask(s1, task, "submit")
        ELSE [s1 EXCEPT !.taskQueue = enqueue(@, task)]

startNextQueuedTask(s) ==
  IF hasCapacity(s) /\ ~isEmpty(s.taskQueue)
    THEN LET d == dequeue(s.taskQueue)
             nextTask == d.task
             s1 == [s EXCEPT !.taskQueue = d.queue, !.trace = Append(@, "dequeue")]
         IN  IF nextTask.id \in DOMAIN s1.agents
               THEN startTask(s1, nextTask, "queue")
               ELSE s1
    ELSE s

NextTask(s, tier) == [id |-> Cardinality(DOMAIN s.agents) + 1, tier |-> tier]

\* One invocation of a caller's callback for task id.
invoke(s, id, name, behaviour) ==
  LET s1 == [s EXCEPT !.events[id][name] = @ + 1,
                      !.trace = Append(@, IF name = "onWarning" THEN "warning" ELSE "callback"),
                      !.seen = Append(@, [agents |-> s.agents, taskQueue |-> s.taskQueue])]
  IN  CASE behaviour.kind = "throw"  -> [s1 EXCEPT !.threw = CallbackError, !.faults = @ + 1]
        [] behaviour.kind = "submit" ->
             submit([s1 EXCEPT !.faults = @ + 1], NextTask(s1, behaviour.tier))
        [] OTHER                     -> s1

\* handleTaskComplete with the completion callback ahead of the warning.
handleTaskCompleteCallbackFirst(s, task, result, wb, cb) ==
  LET s1 == [s EXCEPT !.agents[task.id].endTime = TRUE,
                      !.agents[task.id].result = result,
                      !.agents[task.id].status = IF result.success THEN "completed" ELSE "failed",
                      !.trace = <<"status">>,
                      !.seen = <<>>,
                      !.threw = "none"]
      r  == recordTask(s1.records, result, task.tier)
      s2 == [s1 EXCEPT !.records = r.records, !.trace = Append(@, "record"), !.threw = r.threw]
      s3 == IF s2.threw = "none"
              THEN invoke(s2, task.id, IF result.success THEN "onComplete" ELSE "onFailed", cb)
              ELSE s2
      s4 == IF s3.threw = "none" /\ r.warning # "none"
              THEN invoke(s3, task.id, "onWarning", wb)
              ELSE s3
  IN  IF s4.threw = "none" THEN startNextQueuedTask(s4) ELSE s4

handleTaskComplete(s, task, result, wb, cb) ==
  LET s1 == [s EXCEPT !.agents[task.id].endTime = TRUE,
                      !.agents[task.id].result = result,
                      !.agents[task.id].status = IF result.success THEN "completed" ELSE "failed",
                      !.trace = <<"status">>,
                      !.seen = <<>>,
                      !.threw = "none"]
      r  == recordTask(s1.records, result, task.tier)
      s2 == [s1 EXCEPT !.records = r.records, !.trace = Append(@, "record"), !.threw = r.threw]
      s3 == IF s2.threw = "none" /\ r.warning # "none"
              THEN invoke(s2, task.id, "onWarning", wb)
              ELSE s2
      s4 == IF s3.threw = "none"
              THEN invoke(s3, task.id, IF result.success THEN "onComplete" ELSE "onFailed", cb)
              ELSE s3
  IN  IF s4.threw = "none" THEN startNextQueuedTask(s4) ELSE s4

\* The result the .catch handler of startTask builds from a rejection.
CatchResult(id, error) ==
  [taskId |-> id, success |-> FALSE, costEstimate |-> 0, error |-> error]

TaskOf(id) == [id |-> id, tier |-> agents[id].tier]

Submits(b) == IF b.kind = "submit" THEN 1 ELSE 0

Irregular(b) == IF b.kind = "return" THEN 0 ELSE 1

\* Callbacks that submit need ids left to hand out, and irregular callbacks
\* need room under MaxFaults.
Room(wb, cb) ==
  /\ Cardinality(DOMAIN agents) + Submits(wb) + Submits(cb) <= MaxTasks
  /\ faults + Irregular(wb) + Irregular(cb) <= MaxFaults

TypeOK ==
  /\ maxConcurrent \in 1..MaxN
  /\ DOMAIN agents \subseteq TaskIds
  /\ \A id \in DOMAIN agents : agents[id].status \in {"queued", "running"} \cup Terminal

InitPool ==
  /\ maxConcurrent \in 1..MaxN
  /\ agents = <<>>
  /\ taskQueue = <<>>
  /\ records = <<>>
  /\ runCalls = <<>>
  /\ events = <<>>
  /\ chain = <<>>
  /\ trace = <<>>
  /\ seen = <<>>
  /\ faults = 0

\* A caller submits a task between pool operations.
Submit ==
  /\ Cardinality(DOMAIN agents) < MaxTasks
  /\ \E tier \in PoolTiers :
       /\ tier \notin Tiers => faults < MaxFaults
       /\ Commit(submit([Pool EXCEPT !.faults = IF tier \in Tiers THEN @ ELSE @ + 1],
                        NextTask(Pool, tier)))

\* The backend promise of task id resolves and the .then handler runs.
Resolve ==
  \E id \in DOMAIN agents, outcome \in BackendOutcomes,
     wb \in CallbackBehaviours, cb \in CallbackBehaviours :
    /\ chain[id].state = "pending"
    /\ Room(wb, cb)
    /\ LET result == [taskId |-> id, success |-> outcome.success,
                      costEstimate |-> outcome.costEstimate,
                      error |-> IF outcome.success THEN "none" ELSE BackendError]
           s == handleTaskComplete(Pool, TaskOf(id), result, wb, cb)
       IN  Commit([s EXCEPT !.chain[id] =
                     IF s.threw = "none" THEN [state |-> "settled", error |-> "none"]
                     ELSE [state |-> "thenRejected", error |-> s.threw]])

\* The backend promise of task id rejects: .then is skipped, .catch runs.
Reject ==
  \E id \in DOMAIN agents, wb \in CallbackBehaviours, cb \in CallbackBehaviours :
    /\ chain[id].state = "pending"
    /\ Room(wb, cb)
    /\ LET s == handleTaskComplete(Pool, TaskOf(id), CatchResult(id, RejectError), wb, cb)
       IN  Commit([s EXCEPT !.chain[id] =
                     IF s.threw = "none" THEN [state |-> "settled", error |-> "none"]
                     ELSE [state |-> "unhandled", error |-> s.threw]])

\* The .then handler raised: the promise it returned is rejected and the
\* .catch handler of the same chain runs with that error.
CatchHandler ==
  \E id \in DOMAIN agents, wb \in CallbackBehaviours, cb \in CallbackBehaviours :
    /\ chain[id].state = "thenRejected"
    /\ Room(wb, cb)
    /\ LET s == handleTaskComplete(Pool, TaskOf(id), CatchResult(id, chain[id].error), wb, cb)
       IN  Commit([s EXCEPT !.chain[id] =
                     IF s.threw = "none" THEN [state |-> "settled", error |-> "none"]
                     ELSE [state |-> "unhandled", error |-> s.threw]])

Next ==
  \/ Submit
  \/ Resolve
  \/ Reject
  \/ CatchHandler


\* ------------------------------------------------- LifecycleManager.runTask
MaxClock  == 3         \* the clock ticks by 1 ms up to here, and jumps to a deadline
MaxDeltas == 2         \* output increments emitted in one behaviour

DEFAULT_TIMEOUT_MS == 600000

MAX_OUTPUT_LENGTH == 5000

\* task.timeoutMs: left out, 0, or 2 ms.
TaskTimeouts ==
  {[defined |-> FALSE, ms |-> 0], [defined |-> TRUE, ms |-> 0], [defined |-> TRUE, ms |-> 2]}

RunTiers == {"light", UnknownTier}

\* The increments a session emits.
Deltas == {[ch |-> "A", n |-> 5000], [ch |-> "B", n |-> 5000], [ch |-> "B", n |-> 1]}

NoError == [msg |-> "none", ms |-> 0]

TierError == [msg |-> InvalidTierError, ms |-> 0]

SessionError == [msg |-> "createSession failed", ms |-> 0]

PromptError == [msg |-> "prompt failed", ms |-> 0]

TimeoutError(ms) == [msg |-> "Task timeout after", ms |-> ms]

\* selectModel: a ModelSelection for the six tiers, an Error for any other.
selectModel(tier) ==
  IF tier \in Tiers THEN [threw |-> "none"] ELSE [threw |-> InvalidTierError]

\* task.timeoutMs ?? DEFAULT_TIMEOUT_MS
timeoutMs(def) == IF def.timeoutMs.defined THEN def.timeoutMs.ms ELSE DEFAULT_TIMEOUT_MS

RECURSIVE Length(_)
Length(buf) == IF buf = <<>> THEN 0 ELSE buf[Len(buf)].n + Length(SubSeq(buf, 1, Len(buf) - 1))

\* The last n units of buf.
RECURSIVE KeepLast(_, _)
KeepLast(buf, n) ==
  IF n <= 0 \/ buf = <<>> THEN <<>>
  ELSE LET last == buf[Len(buf)]
       IN  IF last.n >= n THEN <<[ch |-> last.ch, n |-> n]>>
           ELSE KeepLast(SubSeq(buf, 1, Len(buf) - 1), n - last.n) \o <<last>>

\* substring(0, MAX_OUTPUT_LENGTH): the first units, not the last.
RECURSIVE KeepFirst(_, _)
KeepFirst(buf, n) ==
  IF n <= 0 \/ buf = <<>> THEN <<>>
  ELSE IF buf[1].n >= n THEN <<[ch |-> buf[1].ch, n |-> n]>>
       ELSE <<buf[1]>> \o KeepFirst(Tail(buf), n - buf[1].n)

truncateFirst(buf) ==
  IF Length(buf) > MAX_OUTPUT_LENGTH THEN KeepFirst(buf, MAX_OUTPUT_LENGTH) ELSE buf

\* outputText.substring(outputText.length - MAX_OUTPUT_LENGTH) when too long
truncate(buf) ==
  IF Length(buf) > MAX_OUTPUT_LENGTH THEN KeepLast(buf, MAX_OUTPUT_LENGTH) ELSE buf

NoTaskResult ==
  [taskId |-> 0, success |-> FALSE, output |-> <<>>, filesChanged |-> <<>>,
   tokenUsage |-> [input |-> 0, output |-> 0], costEstimate |-> 0, durationMs |-> 0,
   error |-> [msg |-> "no result", ms |-> 0]]

\* The TaskResult literals of runTask; startTime is instant 0, so the
\* duration is the clock.
TaskResultOf(def, success, output, duration, error) ==
  [taskId |-> def.id, success |-> success, output |-> output, filesChanged |-> <<>>,
   tokenUsage |-> [input |-> 0, output |-> 0], costEstimate |-> 0, durationMs |-> duration,
   error |-> error]

\* if (timeoutId) without the clearTimeout: the timer stays armed.
clearTimeoutNoop(id) == id

\* if (timeoutId) clearTimeout(timeoutId)
clearTimeout(id) == IF id = "armed" THEN "cleared" ELSE id

\* A finally block that leaves the session alone.
disposeNever(sess) == sess

\* finally: if (session) session.dispose().  What dispose does to the
\* listeners is the session's own: runTask drops the unsubscribe function
\* that subscribe returned.
dispose(sess) ==
  IF sess.state = "null" THEN sess
  ELSE [sess EXCEPT !.state = "disposed", !.disposes = @ + 1,
                    !.listeners = IF sess.detaches THEN 0 ELSE @]

\* let session: AgentSession | null = null
NoSession == [state |-> "null", aborts |-> 0, disposes |-> 0, listeners |-> 0, detaches |-> TRUE]

\* A subscriber that forwards the delta and then puts it in front of the buffer.
listenerPrepends(buf, fwd, given, delta) ==
  [outputText |-> <<delta>> \o buf,
   delivered  |-> IF given THEN Append(fwd, delta) ELSE fwd]

\* The subscriber: outputText += delta; onOutput?.(delta)
listener(buf, fwd, given, delta) ==
  [outputText |-> Append(buf, delta),
   delivered  |-> IF given THEN Append(fwd, delta) ELSE fwd]

InitRun ==
  /\ pc = "start"
  /\ taskDefinition \in [id : {1}, tier : RunTiers, timeoutMs : TaskTimeouts]
  /\ now = 0
  /\ session = NoSession
  /\ outputText = <<>>
  /\ delivered = <<>>
  /\ onOutput \in BOOLEAN
  /\ emitted = <<>>
  /\ timeoutId = "null"
  /\ deadline = 0
  /\ timedOut = FALSE
  /\ prompt = "none"
  /\ race = [state |-> "none", error |-> NoError]
  /\ taskResult = NoTaskResult

\* The runTask call is not made: the state of the pool specification.
RunIdle ==
  /\ pc = "idle"
  /\ taskDefinition = [id |-> 1, tier |-> "light", timeoutMs |-> [defined |-> FALSE, ms |-> 0]]
  /\ now = 0
  /\ session = NoSession
  /\ outputText = <<>>
  /\ delivered = <<>>
  /\ onOutput = FALSE
  /\ emitted = <<>>
  /\ timeoutId = "null"
  /\ deadline = 0
  /\ timedOut = FALSE
  /\ prompt = "none"
  /\ race = [state |-> "none", error |-> NoError]
  /\ taskResult = NoTaskResult

\* A catch block that raises the error again instead of returning a result.
FailRethrows(error) ==
  /\ timeoutId' = clearTimeout(timeoutId)
  /\ outputText' = truncate(outputText)
  /\ taskResult' = taskResult
  /\ session' = dispose(session)
  /\ pc' = "raised"

\* The catch block and the finally block: the timer is cleared, the buffer
\* truncated, the failure result returned and the session, if any, disposed.
Fail(error) ==
  /\ timeoutId' = clearTimeout(timeoutId)
  /\ outputText' = truncate(outputText)
  /\ taskResult' = TaskResultOf(taskDefinition, FALSE, truncate(outputText), now, error)
  /\ session' = dispose(session)
  /\ pc' = "returned"

\* Steps 1-2: the tier is resolved to a model inside the try block.
SelectModel ==
  /\ pc = "start"
  /\ IF selectModel(taskDefinition.tier).threw = "none"
       THEN /\ pc' = "creating"
            /\ UNCHANGED <<session, outputText, timeoutId, taskResult>>
       ELSE Fail(TierError)
  /\ UNCHANGED <<taskDefinition, onOutput, now, delivered, emitted, deadline, timedOut, prompt, race, poolVars, ledgerVars, gitVars, queueVars>>

\* Steps 3-7: createSession resolves; the session is subscribed to, the timer
\* armed with the task's timeout and session.prompt called.
CreateSession ==
  /\ pc = "creating"
  /\ \E detaches \in BOOLEAN :
       session' = [session EXCEPT !.state = "open", !.listeners = 1, !.detaches = detaches]
  /\ timeoutId' = "armed"
  /\ deadline' = now + timeoutMs(taskDefinition)
  /\ prompt' = "pending"
  /\ race' = [state |-> "pending", error |-> NoError]
  /\ pc' = "racing"
  /\ UNCHANGED <<taskDefinition, onOutput, now, outputText, delivered, emitted, timedOut, taskResult, poolVars, ledgerVars, gitVars, queueVars>>

\* loader.reload or createSession rejects: no session, no timer.
CreateSessionFails ==
  /\ pc = "creating"
  /\ Fail(SessionError)
  /\ UNCHANGED <<taskDefinition, onOutput, now, delivered, emitted, deadline, timedOut, prompt, race, poolVars, ledgerVars, gitVars, queueVars>>

\* The subscriber: a text_delta is appended to the buffer and handed to
\* onOutput when there is one.  The session emits while its prompt is
\* unsettled, an aborted one included, and to the listeners it still has.
Delta ==
  /\ session.listeners = 1
  /\ prompt = "pending"
  /\ Len(emitted) < MaxDeltas
  /\ \E d \in Deltas :
       /\ emitted' = Append(emitted, d)
       /\ outputText' = listener(outputText, delivered, onOutput, d).outputText
       /\ delivered' = listener(outputText, delivered, onOutput, d).delivered
  /\ UNCHANGED <<pc, taskDefinition, onOutput, now, session, timeoutId, deadline, timedOut, prompt, race, taskResult, poolVars, ledgerVars, gitVars, queueVars>>

\* session.prompt resolves; the race is decided if it still is open.
PromptResolves ==
  /\ prompt = "pending"
  /\ prompt' = "resolved"
  /\ race' = IF race.state = "pending" THEN [state |-> "resolved", error |-> NoError] ELSE race
  /\ UNCHANGED <<pc, taskDefinition, onOutput, now, session, outputText, delivered, emitted, timeoutId, deadline, timedOut, taskResult, poolVars, ledgerVars, gitVars, queueVars>>

\* session.prompt rejects; the race is decided if it still is open.
PromptRejects ==
  /\ prompt = "pending"
  /\ prompt' = "rejected"
  /\ race' = IF race.state = "pending" THEN [state |-> "rejected", error |-> PromptError] ELSE race
  /\ UNCHANGED <<pc, taskDefinition, onOutput, now, session, outputText, delivered, emitted, timeoutId, deadline, timedOut, taskResult, poolVars, ledgerVars, gitVars, queueVars>>

\* Time passes.  A due timer runs before later time does, and the clock steps
\* by 1 ms or to the instant the armed timer is due.
Tick ==
  /\ pc # "idle"
  /\ ~(timeoutId = "armed" /\ now >= deadline)
  /\ \/ /\ now < MaxClock
        /\ timeoutId = "armed" => now + 1 <= deadline
        /\ now' = now + 1
     \/ /\ timeoutId = "armed"
        /\ now' = deadline
  /\ UNCHANGED <<pc, taskDefinition, onOutput, session, outputText, delivered, emitted, timeoutId, deadline, timedOut, prompt, race, taskResult, poolVars, ledgerVars, gitVars, queueVars>>

\* The timer callback without the abort.
timerCallbackNoAbort(sess) == sess

\* The timer callback's call of session?.abort().
timerCallback(sess) == [sess EXCEPT !.aborts = @ + 1]

\* The setTimeout callback: timedOut is set, the session aborted and the
\* timeout promise rejected.  The continuation of a decided race is a
\* microtask and runs before any timer, so while runTask waits for the race
\* the race is still open here; reject() on a decided race changes nothing.
TimerFires ==
  /\ timeoutId = "armed"
  /\ now >= deadline
  /\ pc = "racing" => race.state = "pending"
  /\ timeoutId' = "fired"
  /\ timedOut' = TRUE
  /\ session' = timerCallback(session)
  /\ race' = IF race.state = "pending"
              THEN [state |-> "rejected", error |-> TimeoutError(timeoutMs(taskDefinition))]
              ELSE race
  /\ UNCHANGED <<pc, taskDefinition, onOutput, now, outputText, delivered, emitted, deadline, prompt, taskResult, poolVars, ledgerVars, gitVars, queueVars>>

\* The code after await Promise.race: the success path, or the catch block
\* with the error the race was rejected with; then the finally block.
Continue ==
  /\ pc = "racing"
  /\ race.state \in {"resolved", "rejected"}
  /\ IF race.state = "resolved"
       THEN /\ timeoutId' = clearTimeout(timeoutId)
            /\ outputText' = truncate(outputText)
            /\ taskResult' = TaskResultOf(taskDefinition, TRUE, truncate(outputText), now, NoError)
            /\ session' = dispose(session)
            /\ pc' = "returned"
       ELSE Fail(race.error)
  /\ UNCHANGED <<taskDefinition, onOutput, now, delivered, emitted, deadline, timedOut, prompt, race, poolVars, ledgerVars, gitVars, queueVars>>

NextRun ==
  \/ SelectModel
  \/ CreateSession
  \/ CreateSessionFails
  \/ Delta
  \/ PromptResolves
  \/ PromptRejects
  \/ Tick
  \/ TimerFires
  \/ Continue

PoolIdle ==
  /\ maxConcurrent = 1
  /\ agents = <<>>
  /\ taskQueue = <<>>
  /\ records = <<>>
  /\ runCalls = <<>>
  /\ events = <<>>
  /\ chain = <<>>
  /\ trace = <<>>
  /\ seen = <<>>
  /\ faults = 0

\* ------------------------------------------ BudgetTracker persistence
MaxRecords     == 2    \* recordTask calls in one behaviour
MaxSaves       == 2    \* save calls made on one instance
MaxGenerations == 2    \* BudgetTracker instances: the first and one fresh one
MaxWriteFaults == 1    \* failing writes in one behaviour

\* Costs at, just above and below the thresholds of a tier.
CostsOf(tier) ==
  LET t == getBudgetThresholds(tier)
  IN  IF t.threw # "none" THEN {0}
      ELSE {0, t.softWarning, t.softWarning + 1, t.hardFlag, t.hardFlag + 1}

\* The calls of recordTask tried against the thresholds: every tier, and a
\* tier outside the table.
ThresholdInputs ==
  UNION {{[tier |-> t, cost |-> c] : c \in CostsOf(t)} : t \in Tiers \cup {UnknownTier}}

\* The calls of recordTask tried with save and load.
LedgerInputs ==
  {[tier |-> "light", cost |-> 25], [tier |-> "light", cost |-> 75],
   [tier |-> "standard", cost |-> 30], [tier |-> UnknownTier, cost |-> 0]}

\* JSON.stringify(record): one line of the file.
stringify(record) ==
  [kind |-> "json", text |-> <<record.taskId, record.tier, record.costEstimate>>]

\* A line that is not JSON.
Garbage == [kind |-> "garbage", text |-> <<>>]

\* A parse that loses the cost.
parseCostLost(line) ==
  IF line.kind = "json"
    THEN [threw |-> "none",
          value |-> [taskId |-> line.text[1], tier |-> line.text[2], costEstimate |-> 0]]
    ELSE [threw |-> "SyntaxError", value |-> [taskId |-> 0, tier |-> "", costEstimate |-> 0]]

\* JSON.parse(line) as BudgetRecord
parse(line) ==
  IF line.kind = "json"
    THEN [threw |-> "none",
          value |-> [taskId |-> line.text[1], tier |-> line.text[2],
                     costEstimate |-> line.text[3]]]
    ELSE [threw |-> "SyntaxError", value |-> [taskId |-> 0, tier |-> "", costEstimate |-> 0]]

\* A slice that starts at 0: every record, saved or not.
sliceAll(recs, mark) == recs

\* this.records.slice(this.lastSavedIndex)
slice(recs, mark) == SubSeq(recs, mark + 1, Len(recs))

RECURSIVE SumCost(_)
SumCost(recs) == IF recs = <<>> THEN 0 ELSE Head(recs).costEstimate + SumCost(Tail(recs))

\* getTierSummary; the average is kept as the fraction num / den.
getTierSummary(recs, tier) ==
  LET tierRecords == SelectSeq(recs, LAMBDA r : r.tier = tier)
      thresholds  == getBudgetThresholds(tier)
      over        == SelectSeq(tierRecords, LAMBDA r : r.costEstimate > thresholds.softWarning)
  IN  IF Len(tierRecords) = 0
        THEN [tier |-> tier, totalCost |-> 0, taskCount |-> 0,
              averageCost |-> [num |-> 0, den |-> 1],
              softWarning |-> thresholds.softWarning, hardFlag |-> thresholds.hardFlag,
              overSoftCount |-> 0]
        ELSE [tier |-> tier, totalCost |-> SumCost(tierRecords),
              taskCount |-> Len(tierRecords),
              averageCost |-> [num |-> SumCost(tierRecords), den |-> Len(tierRecords)],
              softWarning |-> thresholds.softWarning, hardFlag |-> thresholds.hardFlag,
              overSoftCount |-> Len(over)]

\* const tiers = ["trivial-simple", "trivial-code", "light", ...]
TierOrder == <<"trivial-simple", "trivial-code", "light", "standard", "complex", "deep">>

\* getAllSummaries without its filter: a summary for every tier.
getAllSummariesUnfiltered(recs) ==
  [i \in 1..Len(TierOrder) |-> getTierSummary(recs, TierOrder[i])]

getAllSummaries(recs) ==
  SelectSeq([i \in 1..Len(TierOrder) |-> getTierSummary(recs, TierOrder[i])],
            LAMBDA s : s.taskCount > 0)

NoSummary == [op |-> "none", tier |-> "light", one |-> getTierSummary(<<>>, "light"),
              all |-> <<>>]

\* The saves that wait on the import or on the write.
InFlight == {i \in DOMAIN saves : saves[i].pc \in {"import", "writing"}}

Busy == InFlight # {} \/ loading = "reading"

InitLedger ==
  /\ lastSavedIndex = 0
  /\ historyFile \in {[exists |-> FALSE, readable |-> TRUE, lines |-> <<>>],
                      [exists |-> TRUE, readable |-> TRUE, lines |-> <<Garbage>>],
                      [exists |-> TRUE, readable |-> FALSE, lines |-> <<>>]}
  /\ saves = <<>>
  /\ loading = "idle"
  /\ warning = [threw |-> "none", type |-> "none", tier |-> "light", cost |-> 0]
  /\ recorded = 0
  /\ generation = [n |-> 1, clean |-> ~historyFile.exists]
  /\ original = [records |-> <<>>, synced |-> FALSE]
  /\ overlap = FALSE
  /\ writeFaults = 0
  /\ summary = NoSummary

\* No BudgetTracker call is made: the state of the other specifications.
LedgerIdle ==
  /\ lastSavedIndex = 0
  /\ historyFile = [exists |-> FALSE, readable |-> TRUE, lines |-> <<>>]
  /\ saves = <<>>
  /\ loading = "off"
  /\ warning = [threw |-> "none", type |-> "none", tier |-> "light", cost |-> 0]
  /\ recorded = 0
  /\ generation = [n |-> 1, clean |-> TRUE]
  /\ original = [records |-> <<>>, synced |-> FALSE]
  /\ overlap = FALSE
  /\ writeFaults = 0
  /\ summary = NoSummary

poolRest == <<maxConcurrent, agents, taskQueue, runCalls, events, chain, trace, seen, faults>>

\* recordTask(result, tier) is called with one of the inputs.
RecordTaskWith(inputs) ==
  /\ loading # "off"
  /\ recorded < MaxRecords
  /\ \E in \in inputs :
       LET r == recordTask(records, [taskId |-> recorded + 1, costEstimate |-> in.cost],
                           in.tier)
       IN  /\ records' = r.records
           /\ warning' = [threw |-> r.threw, type |-> r.warning,
                          tier |-> in.tier, cost |-> in.cost]
  /\ recorded' = recorded + 1
  /\ overlap' = (overlap \/ Busy)
  /\ UNCHANGED <<lastSavedIndex, historyFile, saves, loading, generation, original,
                 writeFaults, summary, poolRest, runVars, gitVars, queueVars>>

RecordTask == RecordTaskWith(LedgerInputs)

RecordThresholdTask == RecordTaskWith(ThresholdInputs)

\* save() up to its first await: the records above the mark are taken and
\* turned into lines; with none of them save returns at once.
SaveCall ==
  /\ loading # "off"
  /\ Len(saves) < MaxSaves
  /\ LET newRecords == slice(records, lastSavedIndex)
         lines      == [i \in 1..Len(newRecords) |-> stringify(newRecords[i])]
     IN  saves' = Append(saves, [pc    |-> IF Len(newRecords) = 0 THEN "returned" ELSE "import",
                                 lines |-> lines,
                                 op    |-> "none",
                                 seen  |-> Len(records),
                                 alone |-> ~Busy,
                                 load  |-> loading])
  /\ overlap' = (overlap \/ Busy)
  /\ UNCHANGED <<records, lastSavedIndex, historyFile, loading, warning, recorded,
                 generation, original, writeFaults, summary, poolRest, runVars, gitVars, queueVars>>

\* save() after the import: the directory is made, existsSync decides
\* between appendFile and writeFile, and the write is started.
SaveWrite ==
  /\ \E i \in DOMAIN saves :
       /\ saves[i].pc = "import"
       /\ saves' = [saves EXCEPT ![i].pc = "writing",
                                 ![i].op = IF historyFile.exists THEN "append" ELSE "write"]
  /\ UNCHANGED <<records, lastSavedIndex, historyFile, loading, warning, recorded,
                 generation, original, overlap, writeFaults, summary, poolRest, runVars, gitVars, queueVars>>

\* The write is done and save() goes on: the mark becomes the length that
\* records has now.
SaveCompletes ==
  /\ \E i \in DOMAIN saves :
       /\ saves[i].pc = "writing"
       /\ historyFile' = [historyFile EXCEPT
                            !.exists = TRUE,
                            !.lines = IF saves[i].op = "append" THEN @ \o saves[i].lines
                                      ELSE saves[i].lines]
       /\ saves' = [saves EXCEPT ![i].pc = "returned"]
  /\ lastSavedIndex' = Len(records)
  /\ UNCHANGED <<records, loading, warning, recorded, generation, original, overlap,
                 writeFaults, summary, poolRest, runVars, gitVars, queueVars>>

\* A catch block of save that moves the mark as the try block would.
markAdvancedOnFailure(mark, length) == length

\* The catch block of save: the assignment of line 204 was not reached.
markOnFailure(mark, length) == mark

\* The write fails: nothing is written, the error is logged and raised
\* again, the mark stays.
SaveFails ==
  /\ writeFaults < MaxWriteFaults
  /\ \E i \in DOMAIN saves :
       /\ saves[i].pc = "writing"
       /\ saves' = [saves EXCEPT ![i].pc = "raised"]
  /\ writeFaults' = writeFaults + 1
  /\ lastSavedIndex' = markOnFailure(lastSavedIndex, Len(records))
  /\ UNCHANGED <<records, historyFile, loading, warning, recorded,
                 generation, original, overlap, summary, poolRest, runVars, gitVars, queueVars>>

\* A catch block of load that raises the error again.
loadCatchRethrows(error) ==
  [records |-> records, lastSavedIndex |-> lastSavedIndex, threw |-> error]

\* The catch block of load: the error is logged and the ledger emptied.
loadCatch(error) == [records |-> <<>>, lastSavedIndex |-> 0, threw |-> "none"]

\* The try block of load on the file as it is read.
loadRead(file) ==
  IF ~file.readable THEN loadCatch("EACCES")
  ELSE IF \E i \in DOMAIN file.lines : parse(file.lines[i]).threw # "none"
         THEN loadCatch("SyntaxError")
         ELSE [records |-> [i \in DOMAIN file.lines |-> parse(file.lines[i]).value],
               lastSavedIndex |-> Len(file.lines),
               threw |-> "none"]

\* load() up to its await: without a file the ledger is emptied and load
\* returns, with one the read is started.
LoadCall ==
  /\ loading = "idle"
  /\ IF ~historyFile.exists
       THEN /\ records' = <<>>
            /\ lastSavedIndex' = 0
            /\ loading' = "returned"
       ELSE /\ loading' = "reading"
            /\ UNCHANGED <<records, lastSavedIndex>>
  /\ overlap' = (overlap \/ Busy)
  /\ UNCHANGED <<historyFile, saves, warning, recorded, generation, original,
                 writeFaults, summary, poolRest, runVars, gitVars, queueVars>>

\* The read is done and load() goes on.
LoadCompletes ==
  /\ loading = "reading"
  /\ LET l == loadRead(historyFile)
     IN  /\ records' = l.records
         /\ lastSavedIndex' = l.lastSavedIndex
         /\ loading' = IF l.threw = "none" THEN "returned" ELSE "raised"
  /\ UNCHANGED <<historyFile, saves, warning, recorded, generation, original, overlap,
                 writeFaults, summary, poolRest, runVars, gitVars, queueVars>>

\* new BudgetTracker(dataDir) on the same storage, once the calls of the
\* previous instance are over.
Restart ==
  /\ loading # "off"
  /\ generation.n < MaxGenerations
  /\ ~Busy
  /\ original' = [records |-> records,
                  synced  |-> /\ generation.clean
                              /\ ~overlap
                              /\ lastSavedIndex = Len(records)]
  /\ generation' = [n |-> generation.n + 1,
                    clean |-> ~historyFile.exists \/ historyFile.lines = <<>>]
  /\ records' = <<>>
  /\ lastSavedIndex' = 0
  /\ saves' = <<>>
  /\ loading' = "idle"
  /\ overlap' = FALSE
  /\ UNCHANGED <<historyFile, warning, recorded, writeFaults, summary, poolRest, runVars, gitVars, queueVars>>

GetTierSummary ==
  /\ loading # "off"
  /\ \E tier \in Tiers :
       summary' = [NoSummary EXCEPT !.op = "getTierSummary", !.tier = tier,
                                    !.one = getTierSummary(records, tier)]
  /\ UNCHANGED <<records, lastSavedIndex, historyFile, saves, loading, warning, recorded,
                 generation, original, overlap, writeFaults, poolRest, runVars, gitVars,
                 queueVars>>

GetAllSummaries ==
  /\ loading # "off"
  /\ summary' = [NoSummary EXCEPT !.op = "getAllSummaries", !.all = getAllSummaries(records)]
  /\ UNCHANGED <<records, lastSavedIndex, historyFile, saves, loading, warning, recorded,
                 generation, original, overlap, writeFaults, poolRest, runVars, gitVars,
                 queueVars>>

\* recordTask around the thresholds, and the summaries of what was recorded.
NextRecord ==
  \/ RecordThresholdTask
  \/ GetTierSummary
  \/ GetAllSummaries

NextLedger ==
  \/ RecordTask
  \/ SaveCall
  \/ SaveWrite
  \/ SaveCompletes
  \/ SaveFails
  \/ LoadCall
  \/ LoadCompletes
  \/ Restart

\* =================================================== WorktreeManager model
\* WorktreeManager runs git through an injected exec(command, {cwd}), which
\* resolves to {stdout, stderr, code} and may reject.  The repository is
\* kept as the facts the commands read and change; a command not disturbed
\* from outside behaves as git does on those facts.  A call is followed
\* from one awaited exec to the next.
MaxCalls == 3
MaxExecFaults == 1

TaskId == 1
Agent == "agent/1"
Branches == {"main", "master", "develop"}
RebaseProtocol == "rebase"
MergeProtocol == "merge"
Undefined == "undefined"
TargetInputs == {Undefined, "develop"}
ExecError == "exec rejected"
NotARepoError == "Not a git repository"
RebaseConflictError == "Rebase conflicts could not be resolved"
MergeConflictError == "Merge conflicts detected"

\* WorktreeInfo of createWorktree(taskId, repoPath).
InfoOf(taskId) ==
  [taskId |-> taskId, worktreePath |-> <<".worktrees", taskId>>,
   branchName |-> <<"agent", taskId>>]

NoInfo == [taskId |-> 0, worktreePath |-> <<>>, branchName |-> <<>>]

NoMergeResult ==
  [success |-> FALSE, mergedBranch |-> "", hasConflictFiles |-> FALSE,
   conflictFiles |-> <<>>, error |-> ""]

Cmd(name, arg) == [name |-> name, arg |-> arg]

\* One line of a command's stdout: leading blanks, then text.
Line(indent, text) == [indent |-> indent, text |-> text]

\* "refs/remotes/origin/" + branch, and what the regular expression
\* /refs\/remotes\/origin\/(.+)/ captures from it.
OriginRef(branch) ==
  CASE branch = "main" -> "refs/remotes/origin/main"
    [] branch = "master" -> "refs/remotes/origin/master"
    [] branch = "develop" -> "refs/remotes/origin/develop"
    [] OTHER -> ""

match(text) ==
  IF \E b \in Branches : OriginRef(b) = text
    THEN [matched |-> TRUE, name |-> CHOOSE b \in Branches : OriginRef(b) = text]
    ELSE [matched |-> FALSE, name |-> ""]

\* git branch --list marks the branch that is checked out with "* ".
Starred(branch) ==
  CASE branch = "main" -> "* main"
    [] branch = "master" -> "* master"
    [] OTHER -> branch

BranchLine(r, branch) ==
  IF r.head = branch THEN Line(0, Starred(branch)) ELSE Line(2, branch)

\* stdout.split("\n").map(line => line.trim()).filter(line => line.length > 0)
trim(line) == line.text

lines(stdout) ==
  LET kept == SelectSeq(stdout, LAMBDA l : trim(l) # "")
  IN [i \in 1..Len(kept) |-> trim(kept[i])]

\* What git does with one command on repository r.
git(r, cmd) ==
  LET out(code, stdout, next) == [code |-> code, stdout |-> stdout, repo |-> next]
      fails == out(1, <<>>, r)
  IN
  CASE cmd.name = "rev-parse" ->
         IF r.isRepo THEN out(0, <<Line(0, ".git")>>, r) ELSE out(128, <<>>, r)
    [] cmd.name = "mkdir" ->
         out(0, <<>>, [r EXCEPT !.dir = TRUE])
    [] cmd.name = "worktree add" ->
         IF r.isRepo /\ ~r.branch /\ ~r.worktree
           THEN out(0, <<>>, [r EXCEPT !.worktree = TRUE, !.branch = TRUE, !.onto = r.head])
           ELSE out(128, <<>>, r)
    [] cmd.name = "worktree remove" ->
         IF r.isRepo /\ r.worktree
           THEN out(0, <<>>, [r EXCEPT !.worktree = FALSE])
           ELSE out(128, <<>>, r)
    [] cmd.name = "branch -D" ->
         IF r.isRepo /\ r.branch /\ ~r.worktree /\ r.head # Agent
           THEN out(0, <<>>, [r EXCEPT !.branch = FALSE])
           ELSE fails
    [] cmd.name = "symbolic-ref" ->
         IF r.isRepo /\ r.originHead # "none"
           THEN out(0, <<Line(0, OriginRef(r.originHead))>>, r)
           ELSE out(128, <<>>, r)
    [] cmd.name = "branch --list" ->
         IF r.isRepo
           THEN out(0, (IF "main" \in r.locals THEN <<BranchLine(r, "main")>> ELSE <<>>)
                       \o (IF "master" \in r.locals THEN <<BranchLine(r, "master")>> ELSE <<>>), r)
           ELSE out(128, <<>>, r)
    [] cmd.name = "rebase" ->
         IF ~(r.isRepo /\ r.branch /\ cmd.arg \in r.locals /\ ~r.rebasing /\ ~r.merging)
           THEN out(128, <<>>, r)
         ELSE IF r.conflicts = "none"
           THEN out(0, <<>>, [r EXCEPT !.onto = cmd.arg, !.head = Agent])
         ELSE out(1, <<>>, [r EXCEPT !.rebasing = TRUE, !.upstream = cmd.arg,
                                      !.headBefore = r.head, !.head = "detached",
                                      !.unmerged = <<"a.ts">>, !.stopped = 1])
    [] cmd.name = "checkout --theirs" ->
         IF r.isRepo THEN out(0, <<>>, r) ELSE out(128, <<>>, r)
    [] cmd.name = "add" ->
         IF r.isRepo THEN out(0, <<>>, [r EXCEPT !.unmerged = <<>>]) ELSE out(128, <<>>, r)
    [] cmd.name = "rebase --continue" ->
         IF ~(r.isRepo /\ r.rebasing) THEN out(128, <<>>, r)
         ELSE IF r.unmerged # <<>> THEN fails
         ELSE IF r.conflicts = "two" /\ r.stopped = 1
           THEN out(1, <<>>, [r EXCEPT !.unmerged = <<"b.ts">>, !.stopped = 2])
         ELSE out(0, <<>>, [r EXCEPT !.rebasing = FALSE, !.onto = r.upstream,
                                      !.head = Agent, !.stopped = 0])
    [] cmd.name = "diff" ->
         IF r.isRepo
           THEN out(0, [i \in 1..Len(r.unmerged) |-> Line(0, r.unmerged[i])], r)
           ELSE out(128, <<>>, r)
    [] cmd.name = "rebase --abort" ->
         IF r.isRepo /\ r.rebasing
           THEN out(0, <<>>, [r EXCEPT !.rebasing = FALSE, !.unmerged = <<>>,
                                        !.head = r.headBefore, !.stopped = 0])
           ELSE out(128, <<>>, r)
    [] cmd.name = "checkout" ->
         IF r.isRepo /\ cmd.arg \in r.locals /\ ~r.rebasing /\ ~r.merging
           THEN out(0, <<>>, [r EXCEPT !.head = cmd.arg])
           ELSE fails
    [] cmd.name = "merge --ff-only" ->
         IF r.isRepo /\ r.branch /\ ~r.rebasing /\ ~r.merging /\ r.head = Agent
           THEN out(0, <<>>, r)
         ELSE IF r.isRepo /\ r.branch /\ ~r.rebasing /\ ~r.merging /\ r.head = r.onto
           THEN out(0, <<>>, [r EXCEPT !.merged = @ \cup {r.head}])
         ELSE out(128, <<>>, r)
    [] cmd.name = "merge --no-ff" ->
         IF ~(r.isRepo /\ r.branch /\ ~r.rebasing /\ ~r.merging /\ r.head \in r.locals)
           THEN out(128, <<>>, r)
         ELSE IF r.conflicts = "none"
           THEN out(0, <<>>, [r EXCEPT !.merged = @ \cup {r.head}])
         ELSE out(1, <<>>, [r EXCEPT !.merging = TRUE, !.unmerged = <<"a.ts">>])
    [] cmd.name = "merge --abort" ->
         IF r.isRepo /\ r.merging
           THEN out(0, <<>>, [r EXCEPT !.merging = FALSE, !.unmerged = <<>>])
           ELSE out(128, <<>>, r)
    [] OTHER -> fails

\* Commands whose exit code also depends on what the model does not keep
\* (uncommitted changes in the working tree, locks, a branch in use by
\* another worktree, the file system).
Unreliable ==
  {"mkdir", "worktree add", "worktree remove", "branch -D", "symbolic-ref",
   "branch --list", "rebase", "checkout --theirs", "add", "checkout",
   "merge --ff-only", "merge --no-ff"}

Steps ==
  Unreliable \cup {"rev-parse", "rebase --continue", "diff", "rebase --abort",
                   "merge --abort"}

\* The ways one exec can go: as git does, a non-zero exit from outside, or
\* a rejected promise.
Hows(step) == IF step \in Unreliable THEN {"ok", "fail", "raise"} ELSE {"ok", "raise"}

\* await this.exec(command, {cwd})
exec(r, cmd, how) ==
  CASE how = "raise" -> [threw |-> TRUE, code |-> 0, stdout |-> <<>>, repo |-> r]
    [] how = "fail" -> [threw |-> FALSE, code |-> 1, stdout |-> <<>>, repo |-> r]
    [] OTHER -> [threw |-> FALSE] @@ git(r, cmd)

NoRepo ==
  [isRepo |-> FALSE, originHead |-> "none", locals |-> {}, head |-> "none",
   headBefore |-> "none", dir |-> FALSE, worktree |-> FALSE, branch |-> FALSE,
   onto |-> "none", upstream |-> "none", rebasing |-> FALSE, merging |-> FALSE,
   unmerged |-> <<>>, stopped |-> 0, merged |-> {}, conflicts |-> "none"]

\* The frame of a WorktreeManager call: the method, the exec it awaits (or
\* returned, raised), its locals, what it returned or raised, and the
\* repository as it was when the call was made.
NoCall ==
  [op |-> "none", pc |-> "none", targetBranch |-> Undefined, branch |-> "",
   conflictFiles |-> <<>>, error |-> "", info |-> NoInfo, merge |-> NoMergeResult,
   before |-> NoRepo]

goto(c, step) == [c EXCEPT !.pc = step]

throw(c, error) == [c EXCEPT !.pc = "raised", !.error = error]

Success == [NoMergeResult EXCEPT !.success = TRUE, !.mergedBranch = Agent]

Failure(files, error) ==
  [success |-> FALSE, mergedBranch |-> Agent, hasConflictFiles |-> TRUE,
   conflictFiles |-> files, error |-> error]

return(c, result) == [c EXCEPT !.pc = "returned", !.merge = result]

\* if (revParseResult.code !== 0) throw new Error(`Not a git repository: ...`)
notARepoIgnored(c) == goto(c, "mkdir")

notARepo(c) == throw(c, NotARepoError)

createWorktree(c, taskId, r) ==
  CASE c.pc = "rev-parse" ->
         IF r.threw THEN throw(c, ExecError)
         ELSE IF r.code # 0 THEN notARepo(c)
         ELSE goto(c, "mkdir")
    [] c.pc = "mkdir" ->
         IF r.threw THEN throw(c, ExecError) ELSE goto(c, "worktree add")
    [] c.pc = "worktree add" ->
         IF r.threw THEN throw(c, ExecError)
         ELSE [c EXCEPT !.pc = "returned", !.info = InfoOf(taskId)]

\* .catch(() => {}) on the promise of exec
catchNothing(r) == r

catch(r) == [r EXCEPT !.threw = FALSE]

\* mergeWorktree returns success after its own cleanup.
cleanup(c, r) ==
  IF catch(r).threw THEN throw(c, ExecError)
  ELSE CASE c.pc = "worktree remove" -> goto(c, "branch -D")
         [] c.pc = "branch -D" ->
              IF c.op = "mergeWorktree" THEN return(c, Success) ELSE goto(c, "returned")

\* The first command of mergeWorktree once the target is known.
integration == IF protocol = RebaseProtocol THEN "rebase" ELSE "checkout"

\* return of getDefaultBranch: to the caller, or into mergeWorktree.
default(c, name) ==
  IF c.op = "mergeWorktree"
    THEN [c EXCEPT !.branch = name, !.pc = integration]
    ELSE [c EXCEPT !.branch = name, !.pc = "returned"]

getDefaultBranch(c, r) ==
  CASE c.pc = "symbolic-ref" ->
         IF r.threw THEN throw(c, ExecError)
         ELSE LET found == IF r.stdout # <<>> THEN match(trim(r.stdout[1]))
                           ELSE [matched |-> FALSE, name |-> ""]
              IN IF r.code = 0 /\ found.matched
                   THEN default(c, found.name)
                   ELSE goto(c, "branch --list")
    [] c.pc = "branch --list" ->
         IF r.threw THEN throw(c, ExecError)
         ELSE LET branches == lines(r.stdout)
              IN IF r.code = 0 /\ Len(branches) > 0
                   THEN default(c, branches[1])
                   ELSE default(c, "main")

\* The conflicts are captured; the rebase or merge is aborted next.
abandonNoAbort(c, files, error) == return(c, Failure(files, error))

abandon(c, files, error) ==
  [c EXCEPT !.conflictFiles = files,
            !.pc = IF protocol = RebaseProtocol THEN "rebase --abort" ELSE "merge --abort"]

\* A rebase protocol that gives up at the first failed rebase, without the
\* resolution attempt.
mergeWorktreeRebaseUnresolved(c, r) ==
  IF r.threw THEN throw(c, ExecError)
  ELSE CASE c.pc = "rebase" ->
              IF r.code # 0 THEN goto(c, "diff") ELSE goto(c, "checkout")
         [] c.pc = "diff" -> abandon(c, lines(r.stdout), RebaseConflictError)
         [] c.pc = "rebase --abort" ->
              return(c, Failure(c.conflictFiles, RebaseConflictError))
         [] c.pc = "checkout" -> goto(c, "merge --ff-only")
         [] c.pc = "merge --ff-only" -> goto(c, "worktree remove")
         [] OTHER -> throw(c, ExecError)

\* part_006: rebase, one resolution attempt, then checkout of the target,
\* fast-forward and cleanup, or capture of the conflicts and abort.
mergeWorktreeRebase(c, r) ==
  IF r.threw THEN throw(c, ExecError)
  ELSE CASE c.pc = "rebase" ->
              IF r.code # 0 THEN goto(c, "checkout --theirs") ELSE goto(c, "checkout")
         [] c.pc = "checkout --theirs" -> goto(c, "add")
         [] c.pc = "add" -> goto(c, "rebase --continue")
         [] c.pc = "rebase --continue" ->
              IF r.code # 0 THEN goto(c, "diff") ELSE goto(c, "checkout")
         [] c.pc = "diff" -> abandon(c, lines(r.stdout), RebaseConflictError)
         [] c.pc = "rebase --abort" ->
              return(c, Failure(c.conflictFiles, RebaseConflictError))
         [] c.pc = "checkout" -> goto(c, "merge --ff-only")
         [] c.pc = "merge --ff-only" -> goto(c, "worktree remove")

\* part_007: checkout of the target, merge --no-ff, then cleanup, or
\* capture of the conflicts and abort.
mergeWorktreeMerge(c, r) ==
  IF r.threw THEN throw(c, ExecError)
  ELSE CASE c.pc = "checkout" -> goto(c, "merge --no-ff")
         [] c.pc = "merge --no-ff" ->
              IF r.code = 0 THEN goto(c, "worktree remove") ELSE goto(c, "diff")
         [] c.pc = "diff" -> abandon(c, lines(r.stdout), MergeConflictError)
         [] c.pc = "merge --abort" ->
              return(c, Failure(c.conflictFiles, MergeConflictError))

mergeWorktree(c, r) ==
  IF protocol = RebaseProtocol THEN mergeWorktreeRebase(c, r) ELSE mergeWorktreeMerge(c, r)

\* The call goes on after the exec it awaited has settled with r.
resume(c, r) ==
  CASE c.pc \in {"rev-parse", "mkdir", "worktree add"} -> createWorktree(c, TaskId, r)
    [] c.pc \in {"worktree remove", "branch -D"} -> cleanup(c, r)
    [] c.pc \in {"symbolic-ref", "branch --list"} -> getDefaultBranch(c, r)
    [] OTHER -> mergeWorktree(c, r)

\* The argument of the command at c.pc.
Arg(c) ==
  CASE c.pc \in {"rebase", "checkout"} -> c.branch
    [] c.pc \in {"worktree add", "branch -D", "merge --ff-only", "merge --no-ff"} -> Agent
    [] OTHER -> ""

Repos ==
  {NoRepo} \cup
  {[NoRepo EXCEPT !.isRepo = TRUE, !.originHead = o, !.locals = l \cup {"develop"},
                  !.head = h, !.headBefore = h, !.conflicts = c] :
     o \in {"none", "master"}, l \in SUBSET {"main", "master"},
     h \in Branches, c \in {"none", "one", "two"}}

InitGit ==
  /\ repo \in {r \in Repos : r.isRepo => r.head \in r.locals}
  /\ commands = <<>>
  /\ call = NoCall
  /\ calls = 0
  /\ execFaults = 0
  /\ protocol \in {RebaseProtocol, MergeProtocol}

\* No WorktreeManager call is made: the state of the other specifications.
GitIdle ==
  /\ repo = NoRepo
  /\ commands = <<>>
  /\ call = NoCall
  /\ calls = 0
  /\ execFaults = 0
  /\ protocol = RebaseProtocol

\* A method is called when no call is under way.
Calls(op, step, targetBranch) ==
  /\ call.pc \notin Steps
  /\ calls < MaxCalls
  /\ calls' = calls + 1
  /\ commands' = <<>>
  /\ call' = [NoCall EXCEPT !.op = op, !.pc = step, !.targetBranch = targetBranch,
                            !.branch = IF targetBranch = Undefined THEN "" ELSE targetBranch,
                            !.before = repo]
  /\ UNCHANGED <<repo, execFaults, protocol, poolVars, runVars, ledgerVars, queueVars>>

CreateWorktree == Calls("createWorktree", "rev-parse", Undefined)

Cleanup == Calls("cleanup", "worktree remove", Undefined)

GetDefaultBranch == Calls("getDefaultBranch", "symbolic-ref", Undefined)

\* const target = targetBranch ?? (await this.getDefaultBranch(info.repoPath))
MergeWorktree ==
  \E targetBranch \in TargetInputs :
    Calls("mergeWorktree",
          IF targetBranch = Undefined THEN "symbolic-ref" ELSE integration,
          targetBranch)

\* The awaited exec settles and the call runs to its next await or its end.
Exec ==
  /\ call.pc \in Steps
  /\ \E how \in Hows(call.pc) :
       /\ how # "ok" => execFaults < MaxExecFaults
       /\ LET cmd == Cmd(call.pc, Arg(call))
              r == exec(repo, cmd, how)
          IN /\ repo' = r.repo
             /\ commands' = Append(commands, cmd @@ [how |-> how, code |-> r.code])
             /\ call' = resume(call, r)
       /\ execFaults' = IF how = "ok" THEN execFaults ELSE execFaults + 1
  /\ UNCHANGED <<calls, protocol, poolVars, runVars, ledgerVars, queueVars>>

NextGit ==
  \/ CreateWorktree
  \/ Cleanup
  \/ GetDefaultBranch
  \/ MergeWorktree
  \/ Exec

\* ========================================================= TaskQueue model
\* One TaskQueue, called with tasks whose ids may repeat; each task object
\* is told apart by n, its place among the tasks passed to enqueue.
MaxEnqueued == 3

QueueTaskIds == {1, 2}
RemoveIds == {1, 2, 3}
NoAnswer == [op |-> "none", task |-> UndefinedTask, found |-> FALSE, number |-> 0]
Answer(op) == [NoAnswer EXCEPT !.op = op]

InitQueue ==
  /\ heap = [queue |-> <<>>, copy |-> <<>>]
  /\ got = "none"
  /\ answer = NoAnswer
  /\ enqueued = <<>>
  /\ gone = {}

\* No separate TaskQueue is used: the state of the other specifications.
QueueIdle == InitQueue

\* The tasks that are to be in the queue: those enqueued and not yet
\* dequeued or removed, in enqueue order.
Remaining == SelectSeq(enqueued, LAMBDA t : t.n \notin gone)

QueueRest == <<poolVars, runVars, ledgerVars, gitVars>>

Enqueue ==
  /\ Len(enqueued) < MaxEnqueued
  /\ \E id \in QueueTaskIds :
       LET task == [id |-> id, n |-> Len(enqueued) + 1]
       IN /\ heap' = [heap EXCEPT !.queue = enqueue(@, task)]
          /\ enqueued' = Append(enqueued, task)
  /\ answer' = Answer("enqueue")
  /\ UNCHANGED <<got, gone, QueueRest>>

Dequeue ==
  /\ LET d == dequeue(heap.queue)
     IN /\ heap' = [heap EXCEPT !.queue = d.queue]
        /\ answer' = [Answer("dequeue") EXCEPT !.task = d.task]
  /\ gone' = IF Remaining = <<>> THEN gone ELSE gone \cup {Remaining[1].n}
  /\ UNCHANGED <<got, enqueued, QueueRest>>

Remove ==
  /\ \E taskId \in RemoveIds :
       /\ LET d == remove(heap.queue, taskId)
          IN /\ heap' = [heap EXCEPT !.queue = d.queue]
             /\ answer' = [Answer("remove") EXCEPT !.found = d.found, !.number = taskId]
       /\ gone' = LET with == SelectSeq(Remaining, LAMBDA t : t.id = taskId)
                  IN IF with = <<>> THEN gone ELSE gone \cup {with[1].n}
  /\ UNCHANGED <<got, enqueued, QueueRest>>

Peek ==
  /\ answer' = [Answer("peek") EXCEPT !.task = peek(heap.queue)]
  /\ UNCHANGED <<heap, got, enqueued, gone, QueueRest>>

Size ==
  /\ answer' = [Answer("size") EXCEPT !.number = size(heap.queue)]
  /\ UNCHANGED <<heap, got, enqueued, gone, QueueRest>>

IsEmpty ==
  /\ answer' = [Answer("isEmpty") EXCEPT !.found = isEmpty(heap.queue)]
  /\ UNCHANGED <<heap, got, enqueued, gone, QueueRest>>

GetAll ==
  /\ LET a == getAll(heap)
     IN /\ heap' = a.heap
        /\ got' = a.ref
  /\ answer' = Answer("getAll")
  /\ UNCHANGED <<enqueued, gone, QueueRest>>

\* The caller changes the array it got from getAll: push, pop, reverse.
Reverse(array) == [i \in 1..Len(array) |-> array[Len(array) + 1 - i]]

Mutations(array) ==
  {Reverse(array)}
    \cup (IF Len(array) > 0 THEN {SubSeq(array, 1, Len(array) - 1)} ELSE {})
    \cup (IF Len(array) < MaxEnqueued THEN {Append(array, [id |-> 3, n |-> 0])} ELSE {})

Mutate ==
  /\ got # "none"
  /\ \E array \in Mutations(heap[got]) :
       /\ array # heap[got]
       /\ heap' = [heap EXCEPT ![got] = array]
  /\ answer' = Answer("mutate")
  /\ UNCHANGED <<got, enqueued, gone, QueueRest>>

NextQueue ==
  \/ Enqueue
  \/ Dequeue
  \/ Remove
  \/ Peek
  \/ Size
  \/ IsEmpty
  \/ GetAll
  \/ Mutate

\* The pool on its own, one runTask call on its own, one ledger on its own.
Init == InitPool /\ RunIdle /\ LedgerIdle /\ GitIdle /\ QueueIdle

Spec == Init /\ [][Next]_vars

InitOneRun == InitRun /\ PoolIdle /\ LedgerIdle /\ GitIdle /\ QueueIdle

InitOneLedger == InitLedger /\ PoolIdle /\ RunIdle /\ GitIdle /\ QueueIdle

SpecLedger == InitOneLedger /\ [][NextLedger]_vars

\* recordTask on every tier and around every threshold, with the summaries.
SpecRecord == InitOneLedger /\ [][NextRecord]_vars

SpecRun == InitOneRun /\ [][NextRun]_vars

InitOneGit == InitGit /\ PoolIdle /\ RunIdle /\ LedgerIdle /\ QueueIdle

InitOneQueue == InitQueue /\ PoolIdle /\ RunIdle /\ LedgerIdle /\ GitIdle

\* One TaskQueue and its caller.
SpecQueue == InitOneQueue /\ [][NextQueue]_vars

\* One WorktreeManager on one repository.
SpecWorktree == InitOneGit /\ [][NextGit]_vars

\* The clock advances, due timers run and the continuation of a decided race
\* runs; nothing makes session.prompt settle.
SpecRunFair ==
  SpecRun /\ WF_vars(Tick) /\ WF_vars(TimerFires) /\ WF_vars(Continue)

\* ================================================================ claims
Min(a, b) == IF a < b THEN a ELSE b

Submitted == Cardinality(DOMAIN agents)

QueueIds == [i \in 1..Len(taskQueue) |-> taskQueue[i].id]

IsFromQueue(c) == c.via = "queue"

FromQueueIds ==
  LET q == SelectSeq(runCalls, IsFromQueue) IN [i \in 1..Len(q) |-> q[i].id]

Increasing(seq) == \A i, j \in 1..Len(seq) : i < j => seq[i] < seq[j]

RunCount(id) == Cardinality({i \in 1..Len(runCalls) : runCalls[i].id = id})

RecordCount(id) == Cardinality({i \in 1..Len(records) : records[i].taskId = id})

\* No completion handler has run yet.
NothingHandled == \A id \in DOMAIN agents : chain[id].state \in {"none", "pending"}

\* Every promise chain has run to its end: no backend invocation is
\* outstanding and no handler is still due.
Quiescent == \A id \in DOMAIN agents : chain[id].state \in {"none", "settled", "unhandled"}

\* C1: in every reachable state the number of records whose status is
\* running is at most the pool's maximum concurrency.
C1_RunningAtMostN == runningCount(Pool) <= maxConcurrent

C1_Witness ==
  /\ runningCount(Pool) = maxConcurrent
  /\ ~isEmpty(taskQueue)
  /\ \E id \in DOMAIN agents : agents[id].status \in Terminal

\* C2: with M > N tasks submitted before any completion, the first N run and
\* the others wait in submission order; the tasks that waited are dispatched
\* in submission order, whatever the order of the completions.
C2_FifoDispatch ==
  /\ NothingHandled =>
       /\ getRunning(Pool) = 1..Min(Submitted, maxConcurrent)
       /\ QueueIds = [i \in 1..(Submitted - Min(Submitted, maxConcurrent)) |-> maxConcurrent + i]
  /\ Increasing(FromQueueIds \o QueueIds)

C2_Witness ==
  /\ Len(FromQueueIds) >= 2
  /\ \E i, j \in 1..Len(records) : i < j /\ records[i].taskId > records[j].taskId

\* C3: every completion of a running task while the queue is non-empty
\* promotes exactly the oldest queued task, so that running is N again and
\* queued is one less; and whenever a task is queued, N tasks are running.
C3_PromoteOldest ==
  [][ /\ \A id \in DOMAIN agents :
           (agents[id].status = "running" /\ agents'[id].status \in Terminal /\ ~isEmpty(taskQueue)) =>
             /\ taskQueue' = Tail(taskQueue)
             /\ agents'[Head(taskQueue).id].status = "running"
             /\ runningCount(Pool)' = maxConcurrent
             /\ queuedCount(Pool)' = queuedCount(Pool) - 1
      /\ (queuedCount(Pool)' > 0 => runningCount(Pool)' = maxConcurrent) ]_vars

LegalEdge(a, b) ==
  \/ a = b
  \/ a = "queued" /\ b = "running"
  \/ a = "running" /\ b \in Terminal

\* C4: a record's status moves only queued -> running -> completed|failed,
\* and once it is completed or failed its status and result never change.
C4_MonotonicStatus ==
  [][ \A id \in DOMAIN agents :
        /\ LegalEdge(agents[id].status, agents'[id].status)
        /\ (agents[id].status \in Terminal => agents'[id].result = agents[id].result) ]_vars

\* C5: runTask has been invoked exactly once for every task that has left
\* the queued status and never for a task that is still queued; only
\* submitted tasks are dispatched.
C5_DispatchedOnce ==
  /\ \A id \in DOMAIN agents :
       RunCount(id) = IF agents[id].status = "queued" THEN 0 ELSE 1
  /\ \A i \in 1..Len(runCalls) : runCalls[i].id \in DOMAIN agents

C5_Witness ==
  /\ \E id \in DOMAIN agents : agents[id].status = "queued"
  /\ \E i \in 1..Len(runCalls) :
       runCalls[i].via = "queue" /\ agents[runCalls[i].id].status \in Terminal

\* A step in which the rejection of task id's backend promise is handled.
RejectionHandled(id) ==
  /\ chain[id].state = "pending"
  /\ chain'[id].state # "pending"
  /\ agents'[id].result.error = RejectError

\* C6: a rejected runTask promise becomes a failed TaskResult and is handled
\* like a resolved failure: the record ends failed with that result, one
\* budget record is appended, onFailed fires, the slot is released and the
\* next queued task, if any, is dispatched.
C6_RejectionHandledAsFailure ==
  [][ \A id \in DOMAIN agents : RejectionHandled(id) =>
        /\ agents'[id].status = "failed"
        /\ agents'[id].result = CatchResult(id, RejectError)
        /\ Len(records') = Len(records) + 1
        /\ records'[Len(records')].taskId = id
        /\ events'[id].onFailed = events[id].onFailed + 1
        /\ events'[id].onComplete = events[id].onComplete
        /\ (~isEmpty(taskQueue) => chain'[Head(taskQueue).id].state = "pending") ]_vars

\* C7: once every dispatched backend invocation has settled and every handler
\* has run, no task is left running or queued.
C7_AllTasksFinish ==
  Quiescent => (runningCount(Pool) = 0 /\ queuedCount(Pool) = 0)

\* C8: a task that is queued or running has had neither onComplete nor
\* onFailed invoked; a finished task has had exactly one of them invoked,
\* exactly once: onComplete iff it is completed, onFailed iff it is failed.
C8_ExactlyOneCallback ==
  \A id \in DOMAIN agents :
    /\ agents[id].status \in {"queued", "running"} =>
         (events[id].onComplete = 0 /\ events[id].onFailed = 0)
    /\ agents[id].status = "completed" =>
         (events[id].onComplete = 1 /\ events[id].onFailed = 0)
    /\ agents[id].status = "failed" =>
         (events[id].onComplete = 0 /\ events[id].onFailed = 1)

Position(order, step) == CHOOSE i \in 1..Len(order) : order[i] = step

\* The steps of tr are taken in the order given, none of them twice.
InOrder(tr, order) ==
  \A i, j \in 1..Len(tr) : i < j => Position(order, tr[i]) < Position(order, tr[j])

\* The steps of tr before its dequeue are all the steps before it in order,
\* but for the warning, which is forwarded only when there is one.
NothingSkipped(tr) ==
  /\ Len(tr) >= 2 /\ tr[1] = "status" /\ tr[2] = "record"
  /\ \A i \in 1..Len(tr) : tr[i] = "dequeue" =>
       \E j \in 1..(i - 1) : tr[j] = "callback"

ClaimedOrder == <<"status", "record", "callback", "warning", "dequeue">>

CodeOrder == <<"status", "record", "warning", "callback", "dequeue">>

\* C9 as claimed: completion handling sets the status, appends exactly one
\* budget record, invokes the completion or failure callback, forwards the
\* warning, and only then dequeues the next task.
C9_ClaimedOrder ==
  [][ records' # records =>
        /\ Len(records') = Len(records) + 1
        /\ NothingSkipped(trace')
        /\ InOrder(trace', ClaimedOrder) ]_vars

\* C9 as amended: each run of completion handling sets the status, appends
\* exactly one budget record, forwards the warning if there is one, invokes
\* the completion or failure callback, and only then dequeues the next task;
\* a step that raises ends the run.
C9_CodeOrder ==
  [][ records' # records =>
        /\ Len(records') = Len(records) + 1
        /\ SubSeq(records', 1, Len(records)) = records
        /\ NothingSkipped(trace')
        /\ InOrder(trace', CodeOrder) ]_vars

C9_Witness == trace = CodeOrder

WorkWon ==
  \/ race.state = "resolved"
  \/ race.state = "rejected" /\ race.error = PromptError

\* C11: exactly one outcome of the race finalizes the one TaskResult.  If
\* the work settles first the timer is cancelled and never fires, so no
\* abort is ever issued and the result is that of the work; if the timer
\* fires first the result is the timeout failure; and once runTask has
\* returned, nothing that settles later changes the result.
C11_OneOutcome ==
  /\ [](WorkWon => session.aborts = 0 /\ ~timedOut /\ timeoutId # "fired")
  /\ [](WorkWon /\ pc = "returned" =>
          /\ timeoutId = "cleared"
          /\ taskResult.success = (race.state = "resolved")
          /\ taskResult.error.msg # "Task timeout after")
  /\ [](timedOut /\ pc = "returned" =>
          /\ ~taskResult.success
          /\ taskResult.error.msg = "Task timeout after")
  /\ [][pc = "returned" => pc' = "returned" /\ taskResult' = taskResult]_vars

\* The timeout result stands although the work resolved afterwards.
C11_Witness ==
  /\ pc = "returned"
  /\ timedOut
  /\ prompt = "resolved"
  /\ ~taskResult.success
  /\ taskResult.error.msg = "Task timeout after"

\* C12: a session that runTask established is disposed exactly once by the
\* time runTask has returned, on the success, the failure and the timeout
\* path, and no session is disposed twice; until then it is open.
C12_DisposedOnce ==
  /\ session.disposes <= 1
  /\ session.state = "open" => pc = "racing" /\ session.disposes = 0
  /\ pc = "returned" /\ session.state # "null" =>
       session.state = "disposed" /\ session.disposes = 1

C12_Witness ==
  /\ pc = "returned"
  /\ timedOut
  /\ session.state = "disposed"
  /\ session.disposes = 1

\* The i-th unit of a buffer.
RECURSIVE CharAt(_, _)
CharAt(buf, i) == IF i <= buf[1].n THEN buf[1].ch ELSE CharAt(Tail(buf), i - buf[1].n)

\* C13: on the success and on the failure path the returned output is the
\* accumulated buffer when that has at most 5000 units, and otherwise its
\* last 5000 units, unit by unit; it is never longer than 5000.
C13_LastUnits ==
  [][pc # "returned" /\ pc' = "returned" =>
       LET buf == emitted
           out == taskResult'.output
           L   == Length(buf)
           K   == Length(out)
       IN  /\ K = Min(L, 5000)
           /\ \A i \in 1..K : CharAt(out, i) = CharAt(buf, L - K + i)]_vars

\* 5000 A and then 5000 B were emitted and the failure result holds the B's.
C13_Witness ==
  /\ pc = "returned"
  /\ ~taskResult.success
  /\ emitted = <<[ch |-> "A", n |-> 5000], [ch |-> "B", n |-> 5000]>>
  /\ taskResult.output = <<[ch |-> "B", n |-> 5000]>>

\* C14 as claimed: for a tier that selectModel cannot resolve runTask raises
\* to its caller, returns no TaskResult and creates no session.
C14_TierErrorRaised ==
  taskDefinition.tier \notin Tiers /\ pc \notin {"idle", "start"} =>
    pc = "raised" /\ session.state = "null"

\* C15: no failure of the unit of work and no timeout leaves runTask as an
\* exception; once the race is lost runTask returns a TaskResult with the
\* task's id, success=false, the output, files changed, usage counters, cost,
\* duration and an error that tells what happened.
C15_FailureIsResult ==
  /\ [](pc # "raised")
  /\ [](pc = "returned" /\ race.state = "rejected" =>
          /\ DOMAIN taskResult = {"taskId", "success", "output", "filesChanged",
                                  "tokenUsage", "costEstimate", "durationMs", "error"}
          /\ taskResult.taskId = taskDefinition.id
          /\ taskResult.success = FALSE
          /\ Length(taskResult.output) <= 5000
          /\ taskResult.durationMs \in 0..now
          /\ taskResult.error = race.error
          /\ taskResult.error.msg \in {"prompt failed", "Task timeout after"})
  /\ (race.state = "rejected" ~> pc = "returned")

C15_Witness ==
  /\ pc = "returned"
  /\ race.state = "rejected"
  /\ race.error = PromptError
  /\ taskResult.error = PromptError

\* C16: a recordTask call on a tier of the table returns a hard warning
\* exactly when the cost is above the hard threshold, a soft warning exactly
\* when it is above the soft but not above the hard threshold, and none
\* otherwise, a cost equal to a threshold not being above it; and the call
\* appends exactly one BudgetRecord, that of its arguments.
C16_WarningByThreshold ==
  [][recorded' # recorded /\ warning'.threw = "none" =>
       LET w  == warning'
           th == getBudgetThresholds(w.tier)
       IN  /\ w.type \in {"hard", "soft", "none"}
           /\ w.type = "hard" <=> w.cost > th.hardFlag
           /\ w.type = "soft" <=> (w.cost > th.softWarning /\ w.cost <= th.hardFlag)
           /\ w.type = "none" <=> w.cost <= th.softWarning
           /\ records' = Append(records, [taskId |-> recorded', tier |-> w.tier,
                                          costEstimate |-> w.cost])]_vars

\* A cost of exactly the hard threshold gave the soft warning.
C16_Witness ==
  /\ recorded > 0
  /\ warning.threw = "none"
  /\ warning.tier = "deep"
  /\ warning.cost = 5000
  /\ warning.type = "soft"

\* The saves that returned without raising.
Returned == {i \in DOMAIN saves : saves[i].pc = "returned"}

\* How many records the ledger held when the last of them was called.
SeenByLastSave ==
  IF Returned = {} THEN 0
  ELSE saves[CHOOSE i \in Returned : \A j \in Returned : j <= i].seen

\* C17: while only recordTask and save are called on a ledger that started
\* on empty storage, each call after the one before is over, the file holds
\* exactly the records that had been appended when the last save was made,
\* once each and in append order; and a save with nothing new starts no
\* write and leaves the file as it is.
C17_SavedOncePerRecord ==
  /\ [](generation.clean /\ ~overlap /\ loading = "idle" =>
          /\ Len(historyFile.lines) = SeenByLastSave
          /\ \A i \in 1..Len(historyFile.lines) :
               historyFile.lines[i] = stringify(records[i]))
  /\ [][Len(saves') = Len(saves) + 1 /\ lastSavedIndex = Len(records) =>
          /\ saves'[Len(saves')].pc = "returned"
          /\ saves'[Len(saves')].op = "none"
          /\ historyFile' = historyFile]_vars

\* Two saves, one after the other, each wrote the one new record; the file
\* holds both in order.
C17_Witness ==
  /\ generation.clean
  /\ ~overlap
  /\ loading = "idle"
  /\ Len(saves) = 2
  /\ Returned = {1, 2}
  /\ saves[1].seen = 1
  /\ saves[2].seen = 2
  /\ Len(historyFile.lines) = 2

\* C18 as claimed: however the save calls overlap, no BudgetRecord is in
\* the file more than once.
C18_NoRecordTwice ==
  \A i, j \in DOMAIN historyFile.lines :
    i < j => historyFile.lines[i] # historyFile.lines[j]

\* C19: when a ledger that started on empty storage, was used one call after
\* the other and ended with all its records saved is followed by a fresh
\* ledger on the same storage, the load of the fresh ledger gives for every
\* tier the same count, total cost, average cost and over-soft count.
C19_RoundTrip ==
  [][/\ loading # "returned"
     /\ loading' = "returned"
     /\ generation.n = 2
     /\ original.synced
     /\ saves = <<>>
     => \A tier \in Tiers :
          LET a == getTierSummary(original.records, tier)
              b == getTierSummary(records', tier)
          IN  /\ b.taskCount = a.taskCount
              /\ b.totalCost = a.totalCost
              /\ b.averageCost.num * a.averageCost.den = a.averageCost.num * b.averageCost.den
              /\ b.overSoftCount = a.overSoftCount]_vars

\* A fresh ledger has loaded two saved records of tier light, one of them
\* over the soft threshold.
C19_Witness ==
  /\ generation.n = 2
  /\ original.synced
  /\ loading = "returned"
  /\ saves = <<>>
  /\ Len(original.records) = 2
  /\ getTierSummary(records, "light").taskCount = 2
  /\ getTierSummary(records, "light").totalCost = 100
  /\ getTierSummary(records, "light").overSoftCount = 1

\* The file as load finds it cannot be turned into records.
Unloadable ==
  \/ ~historyFile.exists
  \/ ~historyFile.readable
  \/ \E i \in DOMAIN historyFile.lines : historyFile.lines[i].kind # "json"

\* C20: load never raises, and a load that finds the file missing,
\* unreadable or corrupt ends with an empty ledger and a mark of 0.
C20_LoadNeverRaises ==
  /\ [](loading # "raised")
  /\ [][loading # "returned" /\ loading' = "returned" /\ Unloadable =>
          records' = <<>> /\ lastSavedIndex' = 0]_vars

\* Records had been appended, and the load of a corrupt file has emptied the
\* ledger.
C20_Witness ==
  /\ loading = "returned"
  /\ \E i \in DOMAIN historyFile.lines : historyFile.lines[i].kind # "json"
  /\ recorded > 0
  /\ records = <<>>
  /\ lastSavedIndex = 0

\* C21: a save whose write fails raises to its caller and leaves the
\* records, the mark and the file as they were; with calls made one after
\* the other, the next save that gets as far as writing carries the lines of
\* the failed one first, and once it has returned the file holds every
\* record exactly once.
C21_FailedSaveRetried ==
  /\ [][\A i \in DOMAIN saves :
          saves[i].pc = "writing" /\ i \in DOMAIN saves' /\ saves'[i].pc = "raised" =>
            records' = records /\ lastSavedIndex' = lastSavedIndex /\ historyFile' = historyFile]_vars
  /\ [](\A i, j \in DOMAIN saves :
          /\ i < j
          /\ saves[i].pc = "raised"
          /\ saves[j].pc \in {"import", "writing", "returned"}
          /\ ~overlap
          /\ loading = "idle"
          => SubSeq(saves[j].lines, 1, Len(saves[i].lines)) = saves[i].lines)
  /\ [](\A i, j \in DOMAIN saves :
          /\ i < j
          /\ saves[i].pc = "raised"
          /\ saves[j].pc = "returned"
          /\ ~overlap
          /\ loading = "idle"
          /\ generation.clean
          => historyFile.lines = [k \in 1..saves[j].seen |-> stringify(records[k])])

\* The first save failed on one record, the second wrote it.
C21_Witness ==
  /\ Len(saves) = 2
  /\ saves[1].pc = "raised"
  /\ saves[2].pc = "returned"
  /\ ~overlap
  /\ loading = "idle"
  /\ generation.clean
  /\ Len(saves[1].lines) = 1
  /\ historyFile.lines = saves[1].lines

\* ------------------------------------------------ WorktreeManager claims
Issued(name) == \E i \in 1..Len(commands) : commands[i].name = name

Names == [i \in 1..Len(commands) |-> commands[i].name]

Undisturbed == \A i \in 1..Len(commands) : commands[i].how = "ok"

Ended(op) == call.op = op /\ call.pc \in {"returned", "raised"}

MergeReturned == call.op = "mergeWorktree" /\ call.pc = "returned"

\* C22: whenever mergeWorktree returns success = true, both cleanup
\* commands have been issued and the target branch contains the changes of
\* the agent branch; success is never reported when the checkout of the
\* target or the merge into it did not succeed.
C22_SuccessMeansIntegrated ==
  (MergeReturned /\ call.merge.success) =>
    /\ Issued("worktree remove")
    /\ Issued("branch -D")
    /\ call.branch \in repo.merged
    /\ \A i \in 1..Len(commands) :
         commands[i].name \in {"checkout", "merge --ff-only", "merge --no-ff"}
           => commands[i].code = 0

\* C23: whenever mergeWorktree reports a failure, it does so by returning
\* a MergeResult, never by raising, and the conflictFiles of that result
\* are not empty, whatever made the rebase or merge command fail.
C23_FailureNamesConflicts ==
  (Ended("mergeWorktree") /\ ~(call.pc = "returned" /\ call.merge.success)) =>
    /\ call.pc = "returned"
    /\ call.merge.hasConflictFiles
    /\ call.merge.conflictFiles # <<>>

C25_CleanupNeverRaises ==
  /\ call.op = "cleanup" => call.pc # "raised"
  /\ (call.op = "cleanup" /\ call.pc = "returned") =>
       Names = <<"worktree remove", "branch -D">>
  /\ (call.op = "mergeWorktree" /\ call.pc = "raised") =>
       (~Issued("worktree remove") /\ ~Issued("branch -D"))
  /\ (MergeReturned /\ Issued("worktree remove")) => Issued("branch -D")

\* The worktree removal was rejected or exited non-zero, the branch
\* deletion was attempted, and cleanup returned.
C25_Witness ==
  /\ call.op = "cleanup"
  /\ call.pc = "returned"
  /\ Len(commands) = 2
  /\ commands[1].how = "raise"
  /\ commands[2].name = "branch -D"
  /\ commands[2].code # 0

\* What getDefaultBranch is to answer on repository r: the branch origin/HEAD
\* points to, else main if it is a local branch, else master if it is,
\* else "main".
DefaultOf(r) ==
  IF r.isRepo /\ r.originHead # "none" THEN r.originHead
  ELSE IF r.isRepo /\ "main" \in r.locals THEN "main"
  ELSE IF r.isRepo /\ "master" \in r.locals THEN "master"
  ELSE "main"

\* C26: getDefaultBranch never raises and always returns a branch name,
\* whatever its commands do; when they answer as git does, it returns the
\* branch origin/HEAD points to, else "main" if a local main exists
\* (whichever branch is checked out), else "master" if a local master
\* exists, else "main".
C26_DefaultBranch ==
  Ended("getDefaultBranch") =>
    /\ call.pc = "returned"
    /\ call.branch \in Branches
    /\ Undisturbed => call.branch = DefaultOf(call.before)

\* C27: createWorktree on a path that is not a git repository raises, with
\* the error "Not a git repository" once rev-parse has answered, and no
\* command other than git rev-parse is issued at any point of the call:
\* the repository and the file system are as before.
C27_NotARepoFailsFirst ==
  (call.op = "createWorktree" /\ ~call.before.isRepo) =>
    /\ call.pc # "returned"
    /\ \A i \in 1..Len(commands) : commands[i].name = "rev-parse"
    /\ repo = call.before
    /\ (call.pc = "raised" /\ Undisturbed) => call.error = NotARepoError
    /\ (call.pc = "raised" /\ ~Undisturbed) => call.error = ExecError

\* git rev-parse answered with a non-zero code on a path that is not a
\* repository and createWorktree raised.
C27_Witness ==
  /\ call.op = "createWorktree"
  /\ ~call.before.isRepo
  /\ call.pc = "raised"
  /\ call.error = NotARepoError
  /\ Len(commands) = 1
  /\ commands[1].code # 0

\* ------------------------------------------------------ TaskQueue claims
Present(queue, taskId) == \E i \in 1..Len(queue) : queue[i].id = taskId

\* C28: TaskQueue refines a FIFO sequence.  After every call the queue
\* holds the tasks enqueued and not yet dequeued or removed, in enqueue
\* order; dequeue returns and removes the oldest task, or returns undefined
\* and changes nothing on an empty queue; remove(id) returns true and
\* deletes only the first task with that id, keeping the others in order,
\* or returns false and changes nothing when no task has that id.
C28_FifoRefinement ==
  [][ /\ heap'.queue = Remaining'
      /\ answer'.op = "dequeue" =>
           IF heap.queue = <<>>
             THEN answer'.task = UndefinedTask /\ heap'.queue = heap.queue
             ELSE /\ gone' = gone \cup {answer'.task.n}
                  /\ answer'.task.n \notin gone
                  /\ \A i \in 1..Len(heap.queue) : answer'.task.n <= heap.queue[i].n
                  /\ Len(heap'.queue) = Len(heap.queue) - 1
      /\ answer'.op = "remove" =>
           /\ answer'.found = Present(heap.queue, answer'.number)
           /\ ~answer'.found => heap'.queue = heap.queue
           /\ answer'.found =>
                /\ Len(heap'.queue) = Len(heap.queue) - 1
                /\ \E i \in 1..Len(heap.queue) :
                     /\ heap.queue[i].id = answer'.number
                     /\ gone' = gone \cup {heap.queue[i].n}
                     /\ heap.queue[i].n \notin gone
                     /\ \A j \in 1..(i - 1) : heap.queue[j].id # answer'.number
    ]_vars

\* remove(id) found a task while a later task with the same id and a task
\* with another id stay in the queue.
C28_Witness ==
  /\ answer.op = "remove"
  /\ answer.found
  /\ Len(heap.queue) = 2
  /\ Present(heap.queue, answer.number)
  /\ \E i \in 1..2 : heap.queue[i].id # answer.number

\* C29: peek, size, isEmpty and getAll leave the queue as it is, and so
\* does every change (push, pop, reverse) the caller makes to the array
\* getAll returned.
C29_ReadsLeaveQueue ==
  [][ answer'.op \in {"peek", "size", "isEmpty", "getAll", "mutate"}
        => heap'.queue = heap.queue ]_vars

\* The caller has changed the array it got from getAll of a queue that is
\* not empty.
C29_Witness ==
  /\ answer.op = "mutate"
  /\ got # "none"
  /\ heap.queue # <<>>
  /\ heap[got] # heap.queue

\* ------------------------------------------------------- summary claims
\* The records of a tier, by their place in the ledger.
PlacesOf(tier) == {i \in 1..Len(records) : records[i].tier = tier}

RECURSIVE CostAt(_)
CostAt(places) ==
  IF places = {} THEN 0
  ELSE LET i == CHOOSE p \in places : TRUE
       IN records[i].costEstimate + CostAt(places \ {i})

\* The tiers of TierOrder that have a record, in that order.
TiersRecorded == SelectSeq(TierOrder, LAMBDA t : PlacesOf(t) # {})

\* C30: getTierSummary(tier) reports, over all records of that tier, their
\* count, the sum of their costs and how many cost strictly more than the
\* soft threshold, and for a tier without records a summary of zeros;
\* getAllSummaries returns one summary for each tier that has a record and
\* none for the others, in the order trivial-simple, trivial-code, light,
\* standard, complex, deep.
C30_Summaries ==
  [][ summary' # summary =>
        /\ summary'.op = "getTierSummary" =>
             LET s == summary'.one
                 places == PlacesOf(summary'.tier)
                 soft == getBudgetThresholds(summary'.tier).softWarning
             IN /\ s.tier = summary'.tier
                /\ s.taskCount = Cardinality(places)
                /\ s.totalCost = CostAt(places)
                /\ s.overSoftCount =
                     Cardinality({i \in places : records[i].costEstimate > soft})
                /\ places = {} => (s.totalCost = 0 /\ s.averageCost.num = 0
                                     /\ s.overSoftCount = 0)
        /\ summary'.op = "getAllSummaries" =>
             /\ Len(summary'.all) = Len(TiersRecorded)
             /\ \A i \in 1..Len(summary'.all) :
                  /\ summary'.all[i].tier = TiersRecorded[i]
                  /\ summary'.all[i].taskCount = Cardinality(PlacesOf(TiersRecorded[i]))
                  /\ summary'.all[i].totalCost = CostAt(PlacesOf(TiersRecorded[i]))
    ]_vars

\* A deep record was made before a light one, one of them above its soft
\* threshold, and getAllSummaries returned light first.
C30_Witness ==
  /\ summary.op = "getAllSummaries"
  /\ Len(records) = 2
  /\ records[1].tier = "deep"
  /\ records[2].tier = "light"
  /\ Len(summary.all) = 2
  /\ summary.all[1].tier = "light"
  /\ summary.all[2].tier = "deep"
  /\ summary.all[2].overSoftCount = 1

\* ------------------------------------------------------------ C31 .. C40
\* The query surface on a pool with records a and queue q.
Snapshot(a, q) == [Pool EXCEPT !.agents = a, !.taskQueue = q]

ConsistentRecord(info, id) ==
  /\ info.taskId = id
  /\ info.status \in {"queued", "running"} \cup Terminal
  /\ info.status = "queued" => (~info.startTime /\ ~info.endTime /\ info.result = NoResult)
  /\ info.status = "running" => (info.startTime /\ ~info.endTime /\ info.result = NoResult)
  /\ info.status \in Terminal =>
       /\ info.startTime
       /\ info.endTime
       /\ info.result # NoResult
       /\ info.result.taskId = id
       /\ info.result.success = (info.status = "completed")

Consistent(a, q) ==
  LET s == Snapshot(a, q)
      ids == [i \in 1..Len(q) |-> q[i].id]
  IN /\ DOMAIN a = 1..Cardinality(DOMAIN a)
     /\ \A id \in DOMAIN a : ConsistentRecord(a[id], id)
     /\ {ids[i] : i \in 1..Len(ids)} = getQueued(s)
     /\ Increasing(ids)
     /\ queuedCount(s) = Len(q)
     /\ runningCount(s) = Cardinality(getRunning(s))
     /\ hasCapacity(s) = (Cardinality(getRunning(s)) < maxConcurrent)
     /\ getRunning(s) \cap getQueued(s) = {}

\* C31: between pool operations and inside every callback the queries
\* agree: one record per submitted id; the queued records are the tasks of
\* the TaskQueue, in the same order; the counts and hasCapacity agree with
\* getRunning and getQueued; a queued record has no start time, a running
\* one a start time and neither result nor end time, a completed or failed
\* one start time, end time and a result whose success flag is its status.
C31_ConsistentSnapshot ==
  /\ Consistent(agents, taskQueue)
  /\ \A i \in 1..Len(seen) : Consistent(seen[i].agents, seen[i].taskQueue)

\* A callback ran while the finished task's slot was free and a task was
\* still waiting in the queue.
C31_Witness ==
  \E i \in 1..Len(seen) :
    LET s == Snapshot(seen[i].agents, seen[i].taskQueue)
    IN /\ seen[i].taskQueue # <<>>
       /\ hasCapacity(s)
       /\ \E id \in DOMAIN seen[i].agents : seen[i].agents[id].status \in Terminal


\* C32: while runTask waits for the race, the buffer is the increments the
\* session has emitted, in emission order, and onOutput, when given, has
\* been handed each of them once, in that order, at the step that emitted
\* it; the output of the result is the increments emitted before the
\* return, whole when they have at most 5000 units and otherwise their last
\* units; none of this depends on onOutput being given.
C32_IncrementsForwarded ==
  [][/\ pc' = "racing" =>
          /\ outputText' = emitted'
          /\ delivered' = IF onOutput THEN emitted' ELSE <<>>
     /\ pc = "racing" /\ emitted' # emitted =>
          \E d \in Deltas :
            /\ emitted' = Append(emitted, d)
            /\ outputText' = Append(outputText, d)
            /\ delivered' = IF onOutput THEN Append(delivered, d) ELSE delivered
     /\ pc = "racing" /\ pc' = "returned" =>
          LET out == taskResult'.output
              L   == Length(emitted)
              K   == Length(out)
          IN  /\ L <= MAX_OUTPUT_LENGTH => out = emitted
              /\ K <= L
              /\ \A i \in 1..K : CharAt(out, i) = CharAt(emitted, L - K + i)]_vars

\* Two different increments were forwarded in order and are the output.
C32_Witness ==
  /\ pc = "returned"
  /\ onOutput
  /\ emitted = <<[ch |-> "A", n |-> 5000], [ch |-> "B", n |-> 1]>>
  /\ delivered = emitted
  /\ taskResult.output = <<[ch |-> "A", n |-> 4999], [ch |-> "B", n |-> 1]>>

\* C39 as claimed: once runTask has returned, onOutput is handed nothing more.
C39_NoLateDelta ==
  [][pc = "returned" => delivered' = delivered]_vars


\* The commands of the current call after the target branch was determined.
MergeSteps ==
  SelectSeq(commands, LAMBDA cmd : cmd.name \notin {"symbolic-ref", "branch --list"})

MergeNames == [i \in 1..Len(MergeSteps) |-> MergeSteps[i].name]

IsPrefix(p, q) == Len(p) <= Len(q) /\ p = SubSeq(q, 1, Len(p))

RebasedDirectly == <<"rebase", "checkout", "merge --ff-only", "worktree remove", "branch -D">>

RebasedAfterResolution ==
  <<"rebase", "checkout --theirs", "add", "rebase --continue",
    "checkout", "merge --ff-only", "worktree remove", "branch -D">>

RebaseAbandoned ==
  <<"rebase", "checkout --theirs", "add", "rebase --continue", "diff", "rebase --abort">>

\* C33: a rebase-protocol mergeWorktree issues its commands in one of three
\* orders: rebase, checkout of the target, fast-forward, cleanup; or rebase,
\* take-theirs, stage, continue, and then the same; or rebase, take-theirs,
\* stage, continue, capture of the conflicted paths, abort.  The resolution
\* is attempted only after a failed rebase, the capture only after a failed
\* continuation, the checkout only after a rebase or continuation that
\* succeeded; success is returned only at the end of one of the first two
\* orders and failure, with the rebase error, only at the end of the third.
C33_RebaseOrder ==
  (protocol = RebaseProtocol /\ call.op = "mergeWorktree") =>
    LET ns == MergeNames
        code(i) == MergeSteps[i].code
        ok(i) == MergeSteps[i].how # "raise" /\ code(i) = 0
    IN /\ \/ IsPrefix(ns, RebasedDirectly)
          \/ IsPrefix(ns, RebasedAfterResolution)
          \/ IsPrefix(ns, RebaseAbandoned)
       /\ Len(ns) >= 2 /\ ns[2] = "checkout --theirs" => code(1) # 0
       /\ Len(ns) >= 2 /\ ns[2] = "checkout" => ok(1)
       /\ Len(ns) >= 5 /\ ns[5] = "diff" => code(4) # 0
       /\ Len(ns) >= 5 /\ ns[5] = "checkout" => ok(4)
       /\ call.pc = "returned" /\ call.merge.success =>
            ns \in {RebasedDirectly, RebasedAfterResolution}
       /\ call.pc = "returned" /\ ~call.merge.success =>
            ns = RebaseAbandoned /\ call.merge.error = RebaseConflictError

\* A rebase that stopped, was resolved and continued, and then integrated.
C33_Witness ==
  /\ protocol = RebaseProtocol
  /\ MergeReturned
  /\ call.merge.success
  /\ MergeNames = RebasedAfterResolution


\* C40 as claimed: createWorktree returns a WorktreeInfo only when its
\* `git worktree add` succeeded, so that the worktree and the branch
\* agent/<taskId> exist; the info is the one derived from the task id.
C40_CreatedOrFails ==
  (call.op = "createWorktree" /\ call.pc = "returned") =>
    /\ call.info = InfoOf(TaskId)
    /\ commands[Len(commands)].name = "worktree add"
    /\ commands[Len(commands)].code = 0
    /\ repo.worktree
    /\ repo.branch


\* C34 as claimed: tasks are started in submission order, so that no task
\* is started while an earlier submitted one still waits in the queue, also
\* when the later one is submitted from inside a callback.
C34_NoOvertaking ==
  /\ Increasing([i \in 1..Len(runCalls) |-> runCalls[i].id])
  /\ \A i \in 1..Len(runCalls) : \A id \in getQueued(Pool) : runCalls[i].id < id


\* C36 as claimed: the completion of a task is handled at most once, also
\* when recordTask or a callback raises in it: a finished record keeps its
\* status and result, no task has two budget records or more than one of
\* onComplete and onFailed, and no slot stays free while a task waits.
C36_HandledOnce ==
  [][\A id \in DOMAIN agents :
       /\ agents[id].status \in Terminal =>
            /\ agents'[id].status = agents[id].status
            /\ agents'[id].result = agents[id].result
       /\ RecordCount(id)' <= 1
       /\ events'[id].onComplete + events'[id].onFailed <= 1
       /\ ~isEmpty(taskQueue') => runningCount(Pool)' = maxConcurrent]_vars


\* The line of every record of the ledger is in the file.
AllPersisted ==
  \A k \in 1..Len(records) :
    \E i \in 1..Len(historyFile.lines) : historyFile.lines[i] = stringify(records[k])

\* The last save was called after every recordTask and after every other
\* save was over, and has returned.
FurtherSaveSucceeded ==
  /\ saves # <<>>
  /\ InFlight = {}
  /\ saves[Len(saves)].alone
  /\ saves[Len(saves)].pc = "returned"
  /\ saves[Len(saves)].seen = Len(records)

\* C35 as claimed: on the first ledger instance, with load not called, once
\* every save is over and a save made after all of them and after the last
\* recordTask has returned, the file holds every record of the ledger.
C35_NoRecordLost ==
  (generation.n = 1 /\ loading = "idle" /\ FurtherSaveSucceeded) => AllPersisted


\* C37 as claimed: a recordTask call with a tier outside the tier table
\* raises the tier error and appends nothing to the ledger.
C37_UnknownTierAppendsNothing ==
  [][recorded' = recorded + 1 /\ warning'.tier \notin Tiers =>
       /\ warning'.threw = InvalidTierError
       /\ records' = records]_vars

\* The call recordTask made with taskId k has its line in the file.
Persisted(k) ==
  \E i \in 1..Len(historyFile.lines) :
    /\ historyFile.lines[i].kind = "json"
    /\ historyFile.lines[i].text[1] = k

\* C38 as claimed: on one ledger instance, once load has returned and a
\* save called after it, after every recordTask and with no other save
\* under way has returned, the file holds the records of all recordTask
\* calls, those made before the load included.
C38_LoadKeepsUnsaved ==
  (/\ generation.n = 1
   /\ FurtherSaveSucceeded
   /\ saves[Len(saves)].load = "returned") =>
     \A k \in 1..recorded : Persisted(k)

====
